---------------------------- MODULE Spec2Model ----------------------------
(***************************************************************************)
(* A model of the sniplicity directive resolution engine (Go rewrite):     *)
(* the directive parser, the Collector, the Snippet Resolver, the Variable *)
(* Engine, the index sort and the build orchestration.                     *)
(*                                                                         *)
(* Text is modelled at the level of lexemes.  A line is a sequence of      *)
(* lexemes; a lexeme is a string that the program never looks inside,      *)
(* except through the character-class tables below.  The lexeme " " is one *)
(* white-space character, "<!--" and "-->" are the comment brackets, "!"   *)
(* is the negation mark of a condition and "{{name}}" is an interpolation  *)
(* token.  The string a sequence of lexemes stands for is their            *)
(* concatenation.                                                          *)
(***************************************************************************)
EXTENDS Integers, Sequences, FiniteSets, TLC

VARIABLES
    \* ---- the source tree and Builder (doBuild) ----
    tree,           \* the source files in walk order: [name, text] as on disk
    stage,          \* where doBuild is
    fileIdx,        \* the index (1-based) of the next file of the running loop
    tempFiles,      \* the pre-loaded files the Collector reads
    files,          \* b.files: [Filename, Content, Metadata] per loaded file
    snippets,       \* b.snippets
    templates,      \* b.templates
    globals,        \* b.globals
    written,        \* the output tree: file name -> the text written
    trace,          \* history: the <<stage, file index>> steps taken so far
    \* ---- Processor.ProcessSnippets on files[fileIdx] ----
    localSnippets,  \* the local snippet table of the file
    snippetStack,   \* the stack of open copy/cut blocks of the local scan
    cutRanges,      \* the recorded <<start, end>> cut ranges (0-based, inclusive)
    nestingLevel,   \* the nesting level counter of the local scan
    scanIdx,        \* the loop index i of the local scan (0-based)
    currentData,    \* the working lines of cut removal and paste expansion
    iteration,      \* the pass counter of the expansion loop
    pc,             \* where ProcessSnippets is: idle, scan, expand, finish, spin
    \* ---- the environment of the Builder ----
    unwritable,     \* the output names os.WriteFile fails on
    builds,         \* the number of doBuild calls so far
    \* ---- the watcher and the web handler ----
    events,         \* the events waiting in w.watcher.Events
    timer,          \* w.timer: nil, armed, fired or stopped
    active,         \* per kind of caller, the goroutines that are inside doBuild
    armedFor,       \* the time since w.timer was armed, in ticks
    quietFor,       \* the time since the last event arrived, in ticks
    callbacks,      \* the number of times the timer has started the callback
    \* ---- a function of the processor called on its own ----
    returned        \* what the call returned, <<>> before the call

buildVars == <<tree, stage, fileIdx, tempFiles, files, snippets, templates, globals, written, trace>>

resolveVars == <<localSnippets, snippetStack, cutRanges, nestingLevel, scanIdx,
                 currentData, iteration, pc>>

watchVars == <<events, timer, active>>

timeVars == <<armedFor, quietFor, callbacks>>

envVars == <<unwritable, events, timer, active, returned, timeVars>>

vars == <<tree, stage, fileIdx, tempFiles, files, snippets, templates, globals, written, trace,
          localSnippets, snippetStack, cutRanges, nestingLevel, scanIdx,
          currentData, iteration, pc, unwritable, builds, events, timer, active, returned,
          armedFor, quietFor, callbacks>>

-----------------------------------------------------------------------------
(* Sequences and maps *)

Min(S) == CHOOSE x \in S : \A y \in S : x <= y

Max(S) == CHOOSE x \in S : \A y \in S : x >= y

Last(s) == s[Len(s)]

Front(s) == SubSeq(s, 1, Len(s) - 1)

\* The empty map; maps are functions from a finite set of names.
EmptyMap == [x \in {} |-> <<>>]

\* m[k] = v in Go.
Put(m, k, v) == [x \in DOMAIN m \cup {k} |-> IF x = k THEN v ELSE m[x]]

\* The concatenation of the sequences in ss[lo..hi], by halving.
RECURSIVE FlattenRange(_, _, _)
FlattenRange(ss, lo, hi) ==
    IF lo > hi THEN <<>>
    ELSE IF lo = hi THEN ss[lo]
    ELSE LET mid == (lo + hi) \div 2
         IN FlattenRange(ss, lo, mid) \o FlattenRange(ss, mid + 1, hi)

Flatten(ss) == FlattenRange(ss, 1, Len(ss))

-----------------------------------------------------------------------------
(* Lexemes and strings *)

\* The word lexemes of the model's alphabet: each consists only of letters,
\* digits, "-", "_" and ".", the characters of the class [-\w.].  The numerals
\* are the two-digit ones of value 1 to 31 (the value is the index) and some
\* four-digit ones.
TwoDigits ==
    << "01", "02", "03", "04", "05", "06", "07", "08", "09", "10",
       "11", "12", "13", "14", "15", "16", "17", "18", "19", "20",
       "21", "22", "23", "24", "25", "26", "27", "28", "29", "30", "31" >>

FourDigits == {"1969", "1970", "2023", "2024"}

WordLexemes ==
    { "copy", "cut", "paste", "set", "global", "template", "if", "endif",
      "end", "include", "index", "foo",
      "A", "B", "T", "x", "footer", "page", "content", "date", "title",
      "filename", "filepath", "html", "txt", "a", "b", "c", "p1", "p2", "p3",
      "true", "false", "0", "yes", "s", "f", "g", "not-a-date", "-", ".",
      "Hi", "Bye", "a1", "b1", "g1", "g2", "t1", "t2", "u1", "u2" }
    \cup {TwoDigits[i] : i \in 1..Len(TwoDigits)} \cup FourDigits

\* Does the lexeme contain the substring "end" (strings.Contains(line, "end"))?
LexContainsEnd(x) == x \in {"end", "endif"}

\* The string of a sequence of lexemes.
RECURSIVE Str(_)
Str(ls) == IF ls = <<>> THEN "" ELSE Head(ls) \o Str(Tail(ls))

\* The line separator of a joined text, and the white space lexemes.
NL == "\n"

IsSpace(x) == x \in {" ", NL}

\* strings.TrimSpace on a sequence of lexemes.
TrimSpace(ls) ==
    LET ix == {i \in 1..Len(ls) : ~IsSpace(ls[i])}
    IN IF ix = {} THEN <<>> ELSE SubSeq(ls, Min(ix), Max(ix))

\* strings.Fields: the maximal runs of non-space lexemes, each a lexeme sequence.
RECURSIVE FieldsFrom(_, _, _, _)
FieldsFrom(ls, i, cur, acc) ==
    IF i > Len(ls)
    THEN IF cur = <<>> THEN acc ELSE Append(acc, cur)
    ELSE IF IsSpace(ls[i])
         THEN FieldsFrom(ls, i + 1, <<>>, IF cur = <<>> THEN acc ELSE Append(acc, cur))
         ELSE FieldsFrom(ls, i + 1, Append(cur, ls[i]), acc)

Fields(ls) == FieldsFrom(ls, 1, <<>>, <<>>)

\* strings.Join(parts[from:], " ") as a lexeme sequence.
RECURSIVE JoinFrom(_, _)
JoinFrom(parts, from) ==
    IF from > Len(parts) THEN <<>>
    ELSE IF from = Len(parts) THEN parts[from]
    ELSE parts[from] \o <<" ">> \o JoinFrom(parts, from + 1)

\* strings.Contains(line, "end").
ContainsEnd(line) == \E i \in 1..Len(line) : LexContainsEnd(line[i])

\* strings.Join(lines, "\n") and strings.Split(text, "\n").
JoinLines(lines) ==
    Flatten([i \in 1..Len(lines) |-> IF i = 1 THEN lines[i] ELSE <<NL>> \o lines[i]])

RECURSIVE SplitRange(_, _, _)
SplitRange(text, lo, hi) ==
    IF lo > hi THEN << <<>> >>
    ELSE IF lo = hi
    THEN IF text[lo] = NL THEN << <<>>, <<>> >> ELSE << <<text[lo]>> >>
    ELSE LET mid == (lo + hi) \div 2
             l == SplitRange(text, lo, mid)
             r == SplitRange(text, mid + 1, hi)
         IN Front(l) \o << Last(l) \o Head(r) >> \o Tail(r)

SplitLines(text) == SplitRange(text, 1, Len(text))

\* bufio.Scanner over a file's text: its lines, without the empty piece that
\* follows a final line separator; an empty file has no lines.
ScanLines(text) ==
    LET l == SplitLines(text)
    IN IF Last(l) = <<>> THEN Front(l) ELSE l

-----------------------------------------------------------------------------
(* parser: ParseLine, IsBlockEnd, ParseDirectives *)

\* A directive; Type "nil" stands for the nil pointer ParseLine returns.  Cond
\* is the condition of an `if` as lexemes (Name is its string); the value of a
\* set or global (Args[1]), the path of an include and the arguments of an
\* index are kept as lexemes.
Directive(type, name, args, cond, lineIndex) ==
    [Type |-> type, Name |-> name, Args |-> args, Cond |-> cond, LineIndex |-> lineIndex]

NilDirective == Directive("nil", "", <<>>, <<>>, 0)

\* identifierRegex ^[-\w.]+$ on a field.
ValidIdentifier(field) ==
    /\ field # <<>>
    /\ \A i \in 1..Len(field) : field[i] \in WordLexemes

idCommands == {"copy", "cut", "paste", "set", "global", "template"}

\* directiveRegex ^\s*<!--\s+(.*?)\s+--> on the trimmed line t: the captured
\* group as lexemes, or <<"nomatch">> when the line does not match.  The first
\* \s+ is greedy, the group is lazy, and the pattern is not anchored at the end
\* of the line: whatever follows the first closing bracket is ignored.
DirectiveContent(t) ==
    IF Len(t) < 4 \/ t[1] # "<!--" \/ t[2] # " " THEN <<"nomatch">>
    ELSE LET a  == Max({j \in 2..Len(t) : \A m \in 2..j : t[m] = " "})
             ks == {k \in (a + 2)..Len(t) : t[k] = "-->" /\ t[k - 1] = " "}
         IN IF ks # {} THEN SubSeq(t, a + 1, Min(ks) - 2)
            ELSE IF a >= 3 /\ a < Len(t) /\ t[a + 1] = "-->" THEN <<>>
            ELSE <<"nomatch">>

\* The type ParseLine gives an identifier command.
IdCommandType(command) ==
    CASE command = "copy"     -> "Copy"
      [] command = "cut"      -> "Cut"
      [] command = "paste"    -> "Paste"
      [] command = "template" -> "Template"
      [] command = "set"      -> "Set"
      [] command = "global"   -> "Global"

\* The directive of matched content `parts` (the fields of the captured group).
DirectiveOfParts(parts, lineIndex) ==
    LET command == Str(parts[1])
    IN IF command = "endif" THEN Directive("Endif", "", <<>>, <<>>, lineIndex)
       ELSE IF command = "end" THEN Directive("Unknown", "", <<>>, <<>>, lineIndex)
       ELSE IF command = "if"
       THEN IF Len(parts) < 2 THEN NilDirective
            ELSE Directive("If", Str(JoinFrom(parts, 2)), <<>>, JoinFrom(parts, 2), lineIndex)
       ELSE IF command \in idCommands
       THEN IF Len(parts) < 2 \/ ~ValidIdentifier(parts[2]) THEN NilDirective
            ELSE IF command \in {"set", "global"}
            THEN Directive(IdCommandType(command), Str(parts[2]),
                           << IF Len(parts) >= 3 THEN JoinFrom(parts, 3) ELSE <<"true">> >>,
                           <<>>, lineIndex)
            ELSE Directive(IdCommandType(command), Str(parts[2]), <<>>, <<>>, lineIndex)
       ELSE IF command = "include"
       THEN IF Len(parts) < 2 THEN NilDirective
            ELSE Directive("Include", "", << JoinFrom(parts, 2) >>, <<>>, lineIndex)
       ELSE IF command = "index"
       THEN IF Len(parts) < 2 THEN NilDirective
            ELSE Directive("Index", "", [i \in 1..(Len(parts) - 1) |-> parts[i + 1]],
                           <<>>, lineIndex)
       ELSE NilDirective

ParseLine(line, lineIndex) ==
    LET content == DirectiveContent(TrimSpace(line))
    IN IF content = <<"nomatch">> THEN NilDirective
       ELSE LET parts == Fields(content)
            IN IF Len(parts) = 0 THEN NilDirective
               ELSE DirectiveOfParts(parts, lineIndex)

\* IsBlockEnd taking `endif`, not `end`, as the end of a block.
IsBlockEndOnEndif(line) ==
    LET directive == ParseLine(line, 0)
    IN directive.Type = "Endif" /\ ContainsEnd(line)

IsBlockEnd(line) ==
    LET directive == ParseLine(line, 0)
    IN directive.Type = "Unknown" /\ ContainsEnd(line)

\* ParseDirectives: the directives of a file; a copy/cut/template directive is
\* emitted when its block ends (or at the end of the file), every other
\* directive where it stands.  Lines of an open block that parse are directives
\* too; plain lines of a block go to its Content, which no caller reads.
ParseDirectivesLine(content, i, acc) ==
    LET line == content[i]
        directive == ParseLine(line, i - 1)
    IN IF acc.currentBlock.Type # "nil" /\ IsBlockEnd(line)
       THEN [directives |-> Append(acc.directives, acc.currentBlock),
             currentBlock |-> NilDirective]
       ELSE IF directive.Type # "nil"
       THEN IF directive.Type \in {"Copy", "Cut", "Template"}
            THEN [acc EXCEPT !.currentBlock = directive]
            ELSE [acc EXCEPT !.directives = Append(@, directive)]
       ELSE acc

\* The loop over content[lo..hi], evaluated by halves (the test on the left
\* half has it evaluated before the right half begins).
RECURSIVE ParseDirectivesRange(_, _, _, _)
ParseDirectivesRange(content, lo, hi, acc) ==
    IF lo > hi THEN acc
    ELSE IF lo = hi THEN ParseDirectivesLine(content, lo, acc)
    ELSE LET mid  == (lo + hi) \div 2
             left == ParseDirectivesRange(content, lo, mid, acc)
         IN IF Len(left.directives) < 0 THEN left
            ELSE ParseDirectivesRange(content, mid + 1, hi, left)

ParseDirectives(content) ==
    LET acc == ParseDirectivesRange(content, 1, Len(content),
                                    [directives |-> <<>>, currentBlock |-> NilDirective])
    IN IF acc.currentBlock.Type # "nil"
       THEN Append(acc.directives, acc.currentBlock)
       ELSE acc.directives

-----------------------------------------------------------------------------
(* Lines of the model's alphabet *)

\* The line <!-- w1 w2 ... --> of the given words.
RECURSIVE Spaced(_)
Spaced(words) ==
    IF words = <<>> THEN <<>>
    ELSE IF Len(words) = 1 THEN <<words[1]>>
    ELSE <<words[1], " ">> \o Spaced(Tail(words))

Dir(words) == <<"<!--", " ">> \o Spaced(words) \o <<" ", "-->">>

Text(w) == <<w>>

-----------------------------------------------------------------------------
(* types: parseFrontmatter, parseSimpleYAML, LoadRaw / LoadWithTemplates *)

FrontmatterMark == <<"---">>

\* strings.SplitN(line, ":", 2) and the trimming of key and value; the quotes
\* around a value of two or more characters are removed.
YAMLPair(line) ==
    LET c     == Min({i \in 1..Len(line) : line[i] = ":"})
        key   == TrimSpace(SubSeq(line, 1, c - 1))
        value == TrimSpace(SubSeq(line, c + 1, Len(line)))
        quoted == /\ Len(value) >= 2
                  /\ \/ value[1] = "\"" /\ Last(value) = "\""
                     \/ value[1] = "'" /\ Last(value) = "'"
    IN [key |-> Str(key), value |-> IF quoted THEN SubSeq(value, 2, Len(value) - 1) ELSE value]

\* types.parseSimpleYAML over the lines of the block.
RECURSIVE parseSimpleYAML(_, _, _)
parseSimpleYAML(yamlLines, i, metadata) ==
    IF i > Len(yamlLines) THEN metadata
    ELSE LET line == TrimSpace(yamlLines[i])
         IN IF line = <<>> \/ line[1] = "#" \/ ~(\E j \in 1..Len(line) : line[j] = ":")
            THEN parseSimpleYAML(yamlLines, i + 1, metadata)
            ELSE LET kv == YAMLPair(line)
                 IN parseSimpleYAML(yamlLines, i + 1, Put(metadata, kv.key, kv.value))

\* types.parseFrontmatter: [content, metadata].
parseFrontmatter(lines) ==
    IF Len(lines) = 0 \/ lines[1] # FrontmatterMark
    THEN [content |-> lines, metadata |-> EmptyMap]
    ELSE LET ends == {i \in 2..Len(lines) : lines[i] = FrontmatterMark}
         IN IF ends = {} THEN [content |-> lines, metadata |-> EmptyMap]
            ELSE LET endIdx == Min(ends)
                 IN [content  |-> SubSeq(lines, endIdx + 1, Len(lines)),
                     metadata |-> parseSimpleYAML(SubSeq(lines, 2, endIdx - 1), 1, EmptyMap)]

\* FileInfo.LoadRaw and FileInfo.LoadWithTemplates of a file that is not
\* markdown: both scan the lines of the file's text and split off the
\* frontmatter.  A file of the source tree is [name, text].
LoadRaw(f) ==
    LET fm == parseFrontmatter(ScanLines(f.text))
    IN [Filename |-> f.name, Content |-> fm.content, Metadata |-> fm.metadata]

LoadWithTemplates(f) == LoadRaw(f)

-----------------------------------------------------------------------------
(* processor: the Collector *)

\* A variant of CollectLine that records the closing marker as the last line
\* of the block it closes.
CollectLineWithEnd(st, line, i) ==
    LET directive == ParseLine(line, i)
    IN IF directive.Type \in {"Copy", "Cut", "Template"}
       THEN [st EXCEPT !.stack = Append(@,
                [name         |-> directive.Name,
                 block        |-> <<>>,
                 itemType     |-> CASE directive.Type = "Copy" -> "copy"
                                    [] directive.Type = "Cut" -> "cut"
                                    [] directive.Type = "Template" -> "template",
                 nestingLevel |-> Len(st.stack),
                 startLine    |-> i])]
       ELSE IF directive.Type # "nil" /\ IsBlockEnd(line) /\ Len(st.stack) > 0
       THEN LET item == Last(st.stack)
            IN IF item.itemType = "template"
               THEN [stack     |-> Front(st.stack),
                     snippets  |-> st.snippets,
                     templates |-> Put(st.templates, item.name, Append(item.block, line))]
               ELSE [stack     |-> Front(st.stack),
                     snippets  |-> Put(st.snippets, item.name, Append(item.block, line)),
                     templates |-> st.templates]
       ELSE [st EXCEPT !.stack = [j \in 1..Len(st.stack) |->
                                     [st.stack[j] EXCEPT !.block = Append(@, line)]]]

\* A variant of CollectLine that also gives the opening marker of a block to
\* the blocks that are open around it.
CollectLineWithOpener(st, line, i) ==
    LET directive == ParseLine(line, i)
        appended  == [j \in 1..Len(st.stack) |->
                         [st.stack[j] EXCEPT !.block = Append(@, line)]]
    IN IF directive.Type \in {"Copy", "Cut", "Template"}
       THEN [st EXCEPT !.stack = Append(appended,
                [name         |-> directive.Name,
                 block        |-> <<>>,
                 itemType     |-> CASE directive.Type = "Copy" -> "copy"
                                    [] directive.Type = "Cut" -> "cut"
                                    [] directive.Type = "Template" -> "template",
                 nestingLevel |-> Len(st.stack),
                 startLine    |-> i])]
       ELSE IF directive.Type # "nil" /\ IsBlockEnd(line) /\ Len(st.stack) > 0
       THEN LET item == Last(st.stack)
            IN IF item.itemType = "template"
               THEN [stack     |-> Front(st.stack),
                     snippets  |-> st.snippets,
                     templates |-> Put(st.templates, item.name, item.block)]
               ELSE [stack     |-> Front(st.stack),
                     snippets  |-> Put(st.snippets, item.name, item.block),
                     templates |-> st.templates]
       ELSE [st EXCEPT !.stack = appended]

\* One line of CollectSnippetsFromFile; st is [stack, snippets, templates].
CollectLine(st, line, i) ==
    LET directive == ParseLine(line, i)
        appended  == [j \in 1..Len(st.stack) |->
                         [st.stack[j] EXCEPT !.block = Append(@, line)]]
    IN IF directive.Type \in {"Copy", "Cut", "Template"}
       THEN [st EXCEPT !.stack = Append(@,
                [name         |-> directive.Name,
                 block        |-> <<>>,
                 itemType     |-> CASE directive.Type = "Copy" -> "copy"
                                    [] directive.Type = "Cut" -> "cut"
                                    [] directive.Type = "Template" -> "template",
                 nestingLevel |-> Len(st.stack),
                 startLine    |-> i])]
       ELSE IF directive.Type # "nil" /\ IsBlockEnd(line) /\ Len(st.stack) > 0
       THEN LET item == Last(st.stack)
            IN IF item.itemType = "template"
               THEN [stack     |-> Front(st.stack),
                     snippets  |-> st.snippets,
                     templates |-> Put(st.templates, item.name, item.block)]
               ELSE [stack     |-> Front(st.stack),
                     snippets  |-> Put(st.snippets, item.name, item.block),
                     templates |-> st.templates]
       ELSE [st EXCEPT !.stack = appended]

RECURSIVE CollectFrom(_, _, _)
CollectFrom(content, i, st) ==
    IF i > Len(content) THEN st
    ELSE CollectFrom(content, i + 1, CollectLine(st, content[i], i - 1))

\* CollectSnippetsFromFile: the tables after the file; the stack is dropped at
\* the end of the file, whatever is still open on it.
CollectSnippetsFromFile(content, snips, tmpls) ==
    LET st == CollectFrom(content, 1, [stack |-> <<>>, snippets |-> snips, templates |-> tmpls])
    IN [snippets |-> st.snippets, templates |-> st.templates, stack |-> st.stack]

\* A variant of GlobalsFrom in which the first definition of a name stays.
GlobalsFromFirstWins(directives, i, globs) ==
    [n \in DOMAIN globs \cup {directives[j].Name : j \in {j \in 1..Len(directives) : directives[j].Type = "Global"}} |->
        IF n \in DOMAIN globs THEN globs[n]
        ELSE directives[Min({j \in 1..Len(directives) :
                 directives[j].Type = "Global" /\ directives[j].Name = n})].Args[1]]

\* CollectGlobalsFromFile: globals[directive.Name] = directive.Args[0].
RECURSIVE GlobalsFrom(_, _, _)
GlobalsFrom(directives, i, globs) ==
    IF i > Len(directives) THEN globs
    ELSE GlobalsFrom(directives, i + 1,
                     IF directives[i].Type = "Global"
                     THEN Put(globs, directives[i].Name, directives[i].Args[1])
                     ELSE globs)

CollectGlobalsFromFile(content, globs) == GlobalsFrom(ParseDirectives(content), 1, globs)

-----------------------------------------------------------------------------
(* processor: the Snippet Resolver (ProcessSnippets) *)

maxIterations == 10

\* A variant of the adjustment loop's condition that also holds when the top
\* block is at the current level.
AdjustLoopEnteredAtLevel(stack, level) ==
    Len(stack) > 0 /\ Last(stack).NestingLevel >= level

\* The nesting-level adjustment loop at an `end`:
\*   for len(stack) > 0 && stack[top].NestingLevel > nestingLevel { nestingLevel-- }
\* Its body only decrements nestingLevel, which keeps its own condition true:
\* once entered, the loop runs until the 64-bit counter wraps around, which no
\* run of the program outlasts.  The model enters the state "spin" there.
AdjustLoopEntered(stack, level) ==
    Len(stack) > 0 /\ Last(stack).NestingLevel > level

\* The start line of a cut range: the first line before i that is a cut
\* directive of the same name.
CutStart(content, i, name) ==
    LET js == {j \in 0..(i - 1) :
                 LET cutDirective == ParseLine(content[j + 1], j)
                 IN cutDirective.Type = "Cut" /\ cutDirective.Name = name}
    IN IF js = {} THEN -1 ELSE Min(js)

\* The line is added to every open block.
AddToAll(stack, line) ==
    [j \in 1..Len(stack) |-> [stack[j] EXCEPT !.Block = Append(@, line)]]

\* One line (index i, 0-based) of the local scan; sc is
\* [stack, local, ranges, level, spin].
LocalScanLine(content, i, sc) ==
    LET line      == content[i + 1]
        directive == ParseLine(line, i)
    IN IF directive.Type \in {"Cut", "Copy"}
       THEN [sc EXCEPT !.level = sc.level + 1,
                       !.stack = Append(@, [Name         |-> directive.Name,
                                            Block        |-> <<>>,
                                            IsCut        |-> directive.Type = "Cut",
                                            NestingLevel |-> sc.level + 1])]
       ELSE IF directive.Type # "nil" /\ IsBlockEnd(line)
       THEN IF AdjustLoopEntered(sc.stack, sc.level)
            THEN [sc EXCEPT !.spin = TRUE]
            ELSE IF Len(sc.stack) > 0
            THEN LET stackItem == Last(sc.stack)
                     rest      == Front(sc.stack)
                     cutStart  == CutStart(content, i, stackItem.Name)
                 IN [sc EXCEPT
                        !.local  = Put(@, stackItem.Name, stackItem.Block),
                        !.ranges = IF stackItem.IsCut /\ cutStart >= 0
                                   THEN Append(@, <<cutStart, i>>) ELSE @,
                        !.stack  = IF Len(rest) > 0
                                   THEN [rest EXCEPT ![Len(rest)].Block = Append(@, line)]
                                   ELSE rest]
            ELSE sc
       ELSE [sc EXCEPT !.stack = AddToAll(sc.stack, line)]

\* Cut removal: the lines outside every recorded cut range.
RemoveCutRanges(content, ranges) ==
    LET keep == {i \in 0..(Len(content) - 1) :
                    ~\E r \in 1..Len(ranges) : i >= ranges[r][1] /\ i <= ranges[r][2]}
        idx(n) == CHOOSE i \in keep : Cardinality({j \in keep : j < i}) = n - 1
    IN [n \in 1..Cardinality(keep) |-> content[idx(n) + 1]]

\* ExpandLine looking in the global table before the local one.
ExpandLineGlobalFirst(line, local, global) ==
    LET directive == ParseLine(line, 0)
    IN IF directive.Type = "Paste"
       THEN IF directive.Name \in DOMAIN global THEN global[directive.Name]
            ELSE IF directive.Name \in DOMAIN local THEN local[directive.Name]
            ELSE <<>>
       ELSE IF directive.Type \in {"Copy", "Cut", "Template"}
               \/ (directive.Type # "nil" /\ IsBlockEnd(line))
       THEN <<>>
       ELSE <<line>>

\* A variant of ExpandLine that keeps the paste of an unknown name.
ExpandLineKeepsUnknown(line, local, global) ==
    LET directive == ParseLine(line, 0)
    IN IF directive.Type = "Paste"
       THEN IF directive.Name \in DOMAIN local THEN local[directive.Name]
            ELSE IF directive.Name \in DOMAIN global THEN global[directive.Name]
            ELSE <<line>>
       ELSE IF directive.Type \in {"Copy", "Cut", "Template"}
               \/ (directive.Type # "nil" /\ IsBlockEnd(line))
       THEN <<>>
       ELSE <<line>>

\* A variant of ExpandLine that strips the opening markers only.
ExpandLineKeepsEnd(line, local, global) ==
    LET directive == ParseLine(line, 0)
    IN IF directive.Type = "Paste"
       THEN IF directive.Name \in DOMAIN local THEN local[directive.Name]
            ELSE IF directive.Name \in DOMAIN global THEN global[directive.Name]
            ELSE <<>>
       ELSE IF directive.Type \in {"Copy", "Cut", "Template"}
       THEN <<>>
       ELSE <<line>>

\* What one line of currentData turns into in one expansion pass.
ExpandLine(line, local, global) ==
    LET directive == ParseLine(line, 0)
    IN IF directive.Type = "Paste"
       THEN IF directive.Name \in DOMAIN local THEN local[directive.Name]
            ELSE IF directive.Name \in DOMAIN global THEN global[directive.Name]
            ELSE <<>>
       ELSE IF directive.Type \in {"Copy", "Cut", "Template"}
               \/ (directive.Type # "nil" /\ IsBlockEnd(line))
       THEN <<>>
       ELSE <<line>>

\* A pass that reports no paste, so that the loop is left after it.
ExpansionPassFindsNone(data, local, global) ==
    [newFile    |-> Flatten([n \in 1..Len(data) |-> ExpandLine(data[n], local, global)]),
     foundPaste |-> FALSE]

\* One pass of the expansion loop over data: [newFile, foundPaste].
ExpansionPass(data, local, global) ==
    [newFile    |-> Flatten([n \in 1..Len(data) |-> ExpandLine(data[n], local, global)]),
     foundPaste |-> \E n \in 1..Len(data) : ParseLine(data[n], 0).Type = "Paste"]

-----------------------------------------------------------------------------
(* processor: the Variable Engine (ProcessContentWithDirectives) *)

\* A map overridden by another: for k, v := range over { base[k] = v }.
Merge(base, over) ==
    [k \in DOMAIN base \cup DOMAIN over |-> IF k \in DOMAIN over THEN over[k] ELSE base[k]]

\* isTrue: the local variables are looked up first, then the meta variables.
\* isTrue with "0" taken as truthy.
isTrueZeroTruthy(localVars, metaVars, varName) ==
    IF varName \in DOMAIN localVars
    THEN Str(localVars[varName]) \notin {"", "false"}
    ELSE IF varName \in DOMAIN metaVars
    THEN Str(metaVars[varName]) \notin {"", "false"}
    ELSE FALSE

isTrue(localVars, metaVars, varName) ==
    IF varName \in DOMAIN localVars
    THEN Str(localVars[varName]) \notin {"", "false", "0"}
    ELSE IF varName \in DOMAIN metaVars
    THEN Str(metaVars[varName]) \notin {"", "false", "0"}
    ELSE FALSE

isFalse(localVars, metaVars, varName) == ~isTrue(localVars, metaVars, varName)

\* The evaluation of a condition, with its negation prefix.
ConditionHolds(condition, localVars, metaVars) ==
    IF condition # <<>> /\ Head(condition) = "!"
    THEN isFalse(localVars, metaVars, Str(TrimSpace(Tail(condition))))
    ELSE isTrue(localVars, metaVars, Str(condition))

\* The regular expression \{\{([-\w.]+)\}\} replaced over a text: one scan from
\* the left, pending holding the lexemes of a token that has begun.
TokenStep(acc, x, variables, keepUndefined) ==
    IF x = "{{"
    THEN [out |-> acc.out \o acc.pending, pending |-> <<"{{">>]
    ELSE IF acc.pending # <<>> /\ x \in WordLexemes
    THEN [acc EXCEPT !.pending = Append(@, x)]
    ELSE IF x = "}}" /\ Len(acc.pending) >= 2
    THEN LET varName == Str(Tail(acc.pending))
         IN [out |-> acc.out \o
                     (IF varName \in DOMAIN variables THEN variables[varName]
                      ELSE IF keepUndefined THEN Append(acc.pending, x)
                      ELSE <<>>),
             pending |-> <<>>]
    ELSE [out |-> acc.out \o Append(acc.pending, x), pending |-> <<>>]

RECURSIVE TokenRange(_, _, _, _, _, _)
TokenRange(text, lo, hi, acc, variables, keepUndefined) ==
    IF lo > hi THEN acc
    ELSE IF lo = hi THEN TokenStep(acc, text[lo], variables, keepUndefined)
    ELSE LET mid  == (lo + hi) \div 2
             left == TokenRange(text, lo, mid, acc, variables, keepUndefined)
         IN IF Len(left.out) < 0 THEN left
            ELSE TokenRange(text, mid + 1, hi, left, variables, keepUndefined)

ReplaceTokens(text, variables, keepUndefined) ==
    LET acc == TokenRange(text, 1, Len(text), [out |-> <<>>, pending |-> <<>>],
                          variables, keepUndefined)
    IN acc.out \o acc.pending

\* parser.ExpandVariables: a token of an undefined name is left as it is.
ExpandVariables(text, variables) == ReplaceTokens(text, variables, TRUE)

\* doReplacements: locals override meta; a token of an undefined name is removed.
doReplacements(text, localVars, metaVars) ==
    ReplaceTokens(text, Merge(metaVars, localVars), FALSE)

\* The index of the first lexeme at or after i that is not white space (\s*).
RECURSIVE SkipSpace(_, _)
SkipSpace(text, i) ==
    IF i <= Len(text) /\ IsSpace(text[i]) THEN SkipSpace(text, i + 1) ELSE i

\* The index of the first lexeme at or after i that holds a ">": of the model's
\* lexemes only "-->" does.  The group [^>]+ cannot pass it.
RECURSIVE FirstGT(_, _)
FirstGT(text, i) ==
    IF i > Len(text) \/ text[i] = "-->" THEN i ELSE FirstGT(text, i + 1)

\* <!--\s*endif\s*--> matched at s: the index of its last lexeme, or 0.
EndifEnd(text, s) ==
    IF s > Len(text) \/ text[s] # "<!--" THEN 0
    ELSE LET a == SkipSpace(text, s + 1)
         IN IF a > Len(text) \/ text[a] # "endif" THEN 0
            ELSE LET b == SkipSpace(text, a + 1)
                 IN IF b <= Len(text) /\ text[b] = "-->" THEN b ELSE 0

\* (.*?) followed by the endif marker: the least start of the marker reached
\* from s without passing a line separator, or 0.
RECURSIVE EndifSearch(_, _)
EndifSearch(text, s) ==
    IF s > Len(text) THEN 0
    ELSE IF EndifEnd(text, s) > 0 THEN s
    ELSE IF text[s] = NL THEN 0
    ELSE EndifSearch(text, s + 1)

\* The match of <!--\s*if\s+([^>]+)\s*-->(.*?)<!--\s*endif\s*--> that begins at p.
InlineMatch(text, p) ==
    LET q  == SkipSpace(text, p + 1)
        g  == FirstGT(text, q + 2)
        s  == EndifSearch(text, g + 1)
        no == [ok |-> FALSE, condition |-> <<>>, content |-> <<>>, last |-> 0]
    IN IF text[p] # "<!--" \/ q > Len(text) \/ text[q] # "if" THEN no
       ELSE IF q + 1 > Len(text) \/ ~IsSpace(text[q + 1]) THEN no
       ELSE IF g > Len(text) \/ g < q + 3 \/ s = 0 THEN no
       ELSE [ok |-> TRUE,
             condition |-> TrimSpace(SubSeq(text, q + 2, g - 1)),
             content |-> SubSeq(text, g + 1, s - 1),
             last |-> EndifEnd(text, s)]

\* The positions where inlineIfRegex matches.
InlineStarts(text) == {p \in 1..Len(text) : text[p] = "<!--" /\ InlineMatch(text, p).ok}

\* The replacement with the content shown whatever the condition.
InlineReplacedAlwaysShown(text, p, matches, localVars, metaVars) ==
    SubSeq(text, 1, p - 1) \o matches.content \o SubSeq(text, matches.last + 1, Len(text))

\* strings.Replace(text, matches[0], replacement, 1), the match beginning at p.
InlineReplaced(text, p, matches, localVars, metaVars) ==
    SubSeq(text, 1, p - 1)
        \o (IF ConditionHolds(matches.condition, localVars, metaVars)
            THEN matches.content ELSE <<>>)
        \o SubSeq(text, matches.last + 1, Len(text))

\* One iteration on a text with a match: the leftmost match is replaced by
\* its content or by nothing.
InlineIterationAt(text, p, localVars, metaVars) ==
    InlineReplaced(text, p, InlineMatch(text, p), localVars, metaVars)

InlineIteration(text, localVars, metaVars) ==
    InlineIterationAt(text, Min(InlineStarts(text)), localVars, metaVars)

\* processInlineConditionals: its iteration, until no match is left.
RECURSIVE processInlineConditionals(_, _, _)
processInlineConditionals(text, localVars, metaVars) ==
    IF InlineStarts(text) = {} THEN text
    ELSE processInlineConditionals(InlineIteration(text, localVars, metaVars),
                                   localVars, metaVars)

\* The block sweep leaving out the blank lines.
SweepLineDropsBlank(acc, line, localVars, metaVars) ==
    LET directive == ParseLine(line, 0)
    IN CASE directive.Type = "If" ->
              [acc EXCEPT !.write = ConditionHolds(directive.Cond, localVars, metaVars)]
         [] directive.Type = "Endif" -> [acc EXCEPT !.write = TRUE]
         [] directive.Type = "Cut" -> [acc EXCEPT !.write = FALSE, !.cutting = TRUE]
         [] directive.Type = "Unknown" ->
              IF acc.cutting /\ ContainsEnd(line)
              THEN [acc EXCEPT !.write = TRUE, !.cutting = FALSE]
              ELSE acc
         [] directive.Type \in {"Set", "Copy", "Paste", "Global", "Template",
                                "Include", "Index"} -> acc
         [] OTHER ->
              IF acc.write /\ TrimSpace(line) # <<>>
              THEN [acc EXCEPT !.processedLines = Append(@, line)] ELSE acc

\* The block sweep writing the `end` lines that close no cut.
SweepLineKeepsEnd(acc, line, localVars, metaVars) ==
    LET directive == ParseLine(line, 0)
    IN CASE directive.Type = "If" ->
              [acc EXCEPT !.write = ConditionHolds(directive.Cond, localVars, metaVars)]
         [] directive.Type = "Endif" -> [acc EXCEPT !.write = TRUE]
         [] directive.Type = "Cut" -> [acc EXCEPT !.write = FALSE, !.cutting = TRUE]
         [] directive.Type = "Unknown" /\ acc.cutting /\ ContainsEnd(line) ->
              [acc EXCEPT !.write = TRUE, !.cutting = FALSE]
         [] directive.Type \in {"Set", "Copy", "Paste", "Global", "Template",
                                "Include", "Index"} -> acc
         [] OTHER ->
              IF acc.write THEN [acc EXCEPT !.processedLines = Append(@, line)] ELSE acc

\* One line of the block sweep of ProcessContentWithDirectives.
SweepLine(acc, line, localVars, metaVars) ==
    LET directive == ParseLine(line, 0)
    IN CASE directive.Type = "If" ->
              [acc EXCEPT !.write = ConditionHolds(directive.Cond, localVars, metaVars)]
         [] directive.Type = "Endif" -> [acc EXCEPT !.write = TRUE]
         [] directive.Type = "Cut" -> [acc EXCEPT !.write = FALSE, !.cutting = TRUE]
         [] directive.Type = "Unknown" ->
              IF acc.cutting /\ ContainsEnd(line)
              THEN [acc EXCEPT !.write = TRUE, !.cutting = FALSE]
              ELSE acc
         [] directive.Type \in {"Set", "Copy", "Paste", "Global", "Template",
                                "Include", "Index"} -> acc
         [] OTHER ->
              IF acc.write THEN [acc EXCEPT !.processedLines = Append(@, line)] ELSE acc

RECURSIVE SweepRange(_, _, _, _, _, _)
SweepRange(lines, lo, hi, acc, localVars, metaVars) ==
    IF lo > hi THEN acc
    ELSE IF lo = hi THEN SweepLine(acc, lines[lo], localVars, metaVars)
    ELSE LET mid  == (lo + hi) \div 2
             left == SweepRange(lines, lo, mid, acc, localVars, metaVars)
         IN IF Len(left.processedLines) < 0 THEN left
            ELSE SweepRange(lines, mid + 1, hi, left, localVars, metaVars)

ProcessContentWithDirectives(content, localVars, metaVars) ==
    LET inlined == processInlineConditionals(content, localVars, metaVars)
        lines == SplitLines(inlined)
        acc == SweepRange(lines, 1, Len(lines),
                          [processedLines |-> <<>>, write |-> TRUE, cutting |-> FALSE],
                          localVars, metaVars)
    IN doReplacements(JoinLines(acc.processedLines), localVars, metaVars)

-----------------------------------------------------------------------------
(* processor: ProcessVariables (variables, template application, output) *)

\* The replacement of the content token by the empty text.
ReplaceAllContentByNothing(template, text) ==
    ReplaceTokens(template, [k \in {"content"} |-> <<>>], TRUE)

\* strings.ReplaceAll(template, "{{content}}", text).
ReplaceAllContent(template, text) ==
    ReplaceTokens(template, [k \in {"content"} |-> text], TRUE)

\* localVars: the value of the last set directive of each name.
LocalVarsOf(directives) ==
    LET sets == {j \in 1..Len(directives) : directives[j].Type = "Set"}
    IN [n \in {directives[j].Name : j \in sets} |->
          directives[Max({j \in sets : directives[j].Name = n})].Args[1]]

\* finalContent: the single-line directives are dropped and the remaining
\* lines expanded with allVars.
FinalContentOf(content, directives, allVars) ==
    Flatten([i \in 1..Len(content) |->
                IF \E j \in 1..Len(directives) :
                      /\ directives[j].LineIndex = i - 1
                      /\ directives[j].Type \in {"Set", "Global", "Paste", "Include", "Index"}
                THEN <<>>
                ELSE <<ExpandVariables(content[i], allVars)>>])

\* templateName: the local variable template, else the merged one.
TemplateNameOf(localVars, allVars) ==
    IF "template" \in DOMAIN localVars THEN Str(localVars["template"])
    ELSE IF "template" \in DOMAIN allVars THEN Str(allVars["template"])
    ELSE ""

\* processedTemplate: the paste lines of the template that name a snippet
\* are replaced by the snippet, processed.
ProcessedTemplateOf(templateContent, snips, localVars, allVars) ==
    Flatten([i \in 1..Len(templateContent) |->
                IF /\ ParseLine(templateContent[i], 0).Type = "Paste"
                   /\ ParseLine(templateContent[i], 0).Name \in DOMAIN snips
                THEN SplitLines(ProcessContentWithDirectives(
                         JoinLines(snips[ParseLine(templateContent[i], 0).Name]),
                         localVars, allVars))
                ELSE <<templateContent[i]>>])

\* The text written from finalContent: with the template, if one is named
\* and defined; as it is, if one is named and not defined; processed,
\* if none is named.
ApplyTemplate(templateName, processedFileContent, finalContent, tmpls, snips, localVars, allVars) ==
    IF templateName # ""
    THEN IF templateName \in DOMAIN tmpls
         THEN JoinLines(SplitLines(
                  ProcessContentWithDirectives(
                      ReplaceAllContent(
                          JoinLines(ProcessedTemplateOf(tmpls[templateName], snips,
                                                        localVars, allVars)),
                          processedFileContent),
                      localVars, allVars)))
         ELSE JoinLines(finalContent)
    ELSE JoinLines(SplitLines(processedFileContent))

WithFinalContent(finalContent, tmpls, snips, localVars, allVars) ==
    ApplyTemplate(TemplateNameOf(localVars, allVars),
                  ProcessContentWithDirectives(JoinLines(finalContent), localVars, allVars),
                  finalContent, tmpls, snips, localVars, allVars)

WithAllVars(fileInfo, directives, localVars, allVars, tmpls, snips) ==
    WithFinalContent(FinalContentOf(fileInfo.Content, directives, allVars),
                     tmpls, snips, localVars, allVars)

WithDirectives(fileInfo, directives, localVars, tmpls, snips, globs) ==
    WithAllVars(fileInfo, directives, localVars,
                Merge(Merge(globs, localVars), fileInfo.Metadata), tmpls, snips)

\* The text written for a file: its set directives are the local variables,
\* allVars is the globals overridden by the locals and then by the frontmatter,
\* the single-line directives are dropped and the remaining lines expanded, and
\* the template named by the variable template, if it is defined, is applied.
ProcessVariables(fileInfo, tmpls, snips, globs) ==
    WithDirectives(fileInfo, ParseDirectives(fileInfo.Content),
                   LocalVarsOf(ParseDirectives(fileInfo.Content)), tmpls, snips, globs)

-----------------------------------------------------------------------------
(* watcher and processor: the source tree, the Include Expander *)

\* filepath.Ext of a file name, without its dot.
Ext(name) ==
    IF Len(name) >= 2 /\ name[Len(name) - 1] = "." THEN Last(name) ELSE ""

markdownExtensions == {"md", "mdown", "markdown"}

\* Builder.getFileList: the files of the tree the build processes, in the
\* order of the walk.
getFileList(tr) ==
    Flatten([i \in 1..Len(tr) |->
                IF Ext(tr[i].name) \in markdownExtensions \cup {"html", "htm"}
                THEN <<tr[i]>> ELSE <<>>])

\* strings.Split(strings.TrimRight(text, "\n"), "\n").
IncludeLinesOf(l) ==
    IF \A i \in 1..Len(l) : l[i] = <<>> THEN << <<>> >>
    ELSE SubSeq(l, 1, Max({i \in 1..Len(l) : l[i] # <<>>}))

IncludeLines(text) == IncludeLinesOf(SplitLines(text))

\* The lines that take the place of a line: those of the file includePath
\* names, the line itself if that file cannot be read.
IncludedFile(line, includePath, tr) ==
    IF \A k \in 1..Len(tr) : tr[k].name # includePath THEN <<line>>
    ELSE IncludeLines(tr[Min({k \in 1..Len(tr) : tr[k].name = includePath})].text)

\* The lines that take the place of line i, whose include directives are the
\* directives at the indices `includes`.
IncludedAt(fileInfo, i, directives, includes, tr) ==
    IF includes = {} THEN <<fileInfo.Content[i]>>
    ELSE IncludedFile(fileInfo.Content[i], directives[Min(includes)].Args[1], tr)

\* ProcessIncludes: the new content of the file; the line of an include is
\* replaced by the lines of the file it names, and kept if that cannot be read.
ProcessIncludesWith(fileInfo, directives, tr) ==
    Flatten([i \in 1..Len(fileInfo.Content) |->
        IncludedAt(fileInfo, i, directives,
                   {j \in 1..Len(directives) : /\ directives[j].Type = "Include"
                                               /\ directives[j].LineIndex = i - 1},
                   tr)])

ProcessIncludes(fileInfo, tr) ==
    ProcessIncludesWith(fileInfo, ParseDirectives(fileInfo.Content), tr)

-----------------------------------------------------------------------------
(* processor: the Index Expander (sort keys) *)

\* The value of a numeral lexeme.
TwoDigitValue(x) == CHOOSE i \in 1..Len(TwoDigits) : TwoDigits[i] = x

FourDigitValue(x) ==
    CASE x = "1969" -> 1969 [] x = "1970" -> 1970 [] x = "2023" -> 2023 [] x = "2024" -> 2024

IsTwoDigits(x) == \E i \in 1..Len(TwoDigits) : TwoDigits[i] = x

\* The days of a month, and the days from 1970-01-01 to a civil date (what
\* time.Time.Unix divides out of a date at midnight UTC).
DaysIn(month, year) ==
    IF month = 2
    THEN IF (year % 4 = 0 /\ year % 100 # 0) \/ year % 400 = 0 THEN 29 ELSE 28
    ELSE IF month \in {4, 6, 9, 11} THEN 30 ELSE 31

DaysFromCivil(year, month, day) ==
    LET y   == IF month <= 2 THEN year - 1 ELSE year
        era == y \div 400
        yoe == y - era * 400
        mp  == IF month > 2 THEN month - 3 ELSE month + 9
        doy == (153 * mp + 2) \div 5 + day - 1
        doe == yoe * 365 + yoe \div 4 - yoe \div 100 + doy
    IN era * 146097 + doe - 719468

\* time.Parse of the lexemes yl, ml, dl as year, month and day: [ok, unix].
ParseYMD(yl, ml, dl) ==
    IF yl \in FourDigits /\ IsTwoDigits(ml) /\ IsTwoDigits(dl)
       /\ TwoDigitValue(ml) <= 12
       /\ TwoDigitValue(dl) <= DaysIn(TwoDigitValue(ml), FourDigitValue(yl))
    THEN [ok |-> TRUE,
          unix |-> 86400 * DaysFromCivil(FourDigitValue(yl), TwoDigitValue(ml),
                                         TwoDigitValue(dl))]
    ELSE [ok |-> FALSE, unix |-> 0]

\* parseDateToTimestamp: the formats are tried in the order of dateFormats.  Of
\* the twelve, the four numeric date formats can match a value of the model's
\* alphabet; the others need a month name or a time of day.
parseDateToTimestamp(dateStr) ==
    LET five   == Len(dateStr) = 5
        dashes == five /\ dateStr[2] = "-" /\ dateStr[4] = "-"
        slashs == five /\ dateStr[2] = "/" /\ dateStr[4] = "/"
        ymd    == ParseYMD(dateStr[1], dateStr[3], dateStr[5])
        mdy    == ParseYMD(dateStr[5], dateStr[1], dateStr[3])
        dmy    == ParseYMD(dateStr[5], dateStr[3], dateStr[1])
    IN IF dashes /\ ymd.ok THEN ymd.unix
       ELSE IF slashs /\ ymd.ok THEN ymd.unix
       ELSE IF slashs /\ mdy.ok THEN mdy.unix
       ELSE IF slashs /\ dmy.ok THEN dmy.unix
       ELSE 0

dateFields == {"date", "created", "modified", "published"}

\* getSortKey for a date-like sort field: 0 when the entry has no such field.
getSortKey(metadata, sortField) ==
    IF sortField \notin DOMAIN metadata THEN 0
    ELSE parseDateToTimestamp(metadata[sortField])

-----------------------------------------------------------------------------
(* processor: the Index Expander (metadata, sorting, rendering) *)

\* filepath.Glob on the names of one directory: "*" matches any run of
\* lexemes without a separator, any other lexeme matches itself.
RECURSIVE GlobMatch(_, _)
GlobMatch(pattern, name) ==
    IF pattern = <<>> THEN name = <<>>
    ELSE IF Head(pattern) = "*"
    THEN \E k \in 0..Len(name) :
            /\ \A m \in 1..k : name[m] # "/"
            /\ GlobMatch(Tail(pattern), SubSeq(name, k + 1, Len(name)))
    ELSE name # <<>> /\ Head(name) = Head(pattern) /\ GlobMatch(Tail(pattern), Tail(name))

supportedExtensions == markdownExtensions \cup {"html", "htm", "txt"}

\* findMatchingFiles: the files the pattern matches, in name order.
findMatchingFiles(pattern, tr) ==
    Flatten([i \in 1..Len(tr) |->
                IF GlobMatch(pattern, tr[i].name) /\ Ext(tr[i].name) \in supportedExtensions
                THEN <<tr[i]>> ELSE <<>>])

\* processor.parseSimpleYAML: the pair of a line is taken at the first colon
\* if that is not the line's first character; the quotes of a value are cut
\* off without a look at its length, which fails on a value that is one quote.
processorStore(key, value, quoted, acc) ==
    IF quoted /\ Len(value) = 1 THEN [acc EXCEPT !.panicked = TRUE]
    ELSE [acc EXCEPT !.metadata =
             Put(@, Str(key), IF quoted THEN SubSeq(value, 2, Len(value) - 1) ELSE value)]

processorValue(key, value, acc) ==
    processorStore(key, value,
                   /\ value # <<>>
                   /\ \/ value[1] = "\"" /\ Last(value) = "\""
                      \/ value[1] = "'" /\ Last(value) = "'",
                   acc)

processorPair(t, colon, acc) ==
    processorValue(TrimSpace(SubSeq(t, 1, colon - 1)),
                   TrimSpace(SubSeq(t, colon + 1, Len(t))), acc)

processorTrimmedLine(t, acc) ==
    IF t = <<>> \/ t[1] = "#" \/ (\A i \in 1..Len(t) : t[i] # ":") \/ t[1] = ":" THEN acc
    ELSE processorPair(t, Min({i \in 1..Len(t) : t[i] = ":"}), acc)

processorParseLine(line, acc) == processorTrimmedLine(TrimSpace(line), acc)

RECURSIVE processorParseSimpleYAML(_, _, _)
processorParseSimpleYAML(yamlLines, i, acc) ==
    IF i > Len(yamlLines) \/ acc.panicked THEN acc
    ELSE processorParseSimpleYAML(yamlLines, i + 1, processorParseLine(yamlLines[i], acc))

\* processor.parseFrontmatter: [content, metadata, panicked].
processorFrontmatterAt(lines, endIdx, parsed) ==
    [content  |-> SubSeq(lines, endIdx + 1, Len(lines)),
     metadata |-> parsed.metadata,
     panicked |-> parsed.panicked]

processorFrontmatterTo(lines, endIdx) ==
    processorFrontmatterAt(lines, endIdx,
        processorParseSimpleYAML(SubSeq(lines, 2, endIdx - 1), 1,
                                 [metadata |-> EmptyMap, panicked |-> FALSE]))

processorParseFrontmatter(lines) ==
    IF \/ Len(lines) = 0
       \/ lines[1] # FrontmatterMark
       \/ \A i \in 2..Len(lines) : lines[i] # FrontmatterMark
    THEN [content |-> lines, metadata |-> EmptyMap, panicked |-> FALSE]
    ELSE processorFrontmatterTo(lines, Min({i \in 2..Len(lines) : lines[i] = FrontmatterMark}))

\* The first heading of the lines, "# " cut off, or the file's base name.
IsHeading(trimmed) == Len(trimmed) >= 2 /\ trimmed[1] = "#" /\ trimmed[2] = " "

HeadingTitle(heading) == TrimSpace(SubSeq(heading, 3, Len(heading)))

TitleFrom(f, lines, headings) ==
    IF headings # {} THEN HeadingTitle(TrimSpace(lines[Min(headings)]))
    ELSE IF Ext(f.name) # "" THEN SubSeq(f.name, 1, Len(f.name) - 2)
    ELSE f.name

\* The output path of a file: a markdown file is written as .html.
OutputPathOf(name) ==
    IF Ext(name) \in markdownExtensions THEN Front(name) \o <<"html">> ELSE name

MetadataWith(fm, computed, title) ==
    [panicked |-> fm.panicked,
     metadata |-> IF "title" \in DOMAIN fm.metadata THEN computed
                  ELSE Put(computed, "title", title)]

MetadataFrom(f, lines, fm) ==
    MetadataWith(fm,
                 Put(Put(fm.metadata, "filepath", OutputPathOf(f.name)), "filename", f.name),
                 TitleFrom(f, lines, {i \in 1..Len(lines) : IsHeading(TrimSpace(lines[i]))}))

loadFileMetadataFrom(f, lines) == MetadataFrom(f, lines, processorParseFrontmatter(lines))

\* loadFileMetadata: the frontmatter of the file plus filepath, filename and,
\* if the frontmatter has none, a title (the first heading or the file's base
\* name).
loadFileMetadata(f) == loadFileMetadataFrom(f, SplitLines(f.text))

\* sortFileData: sort.Slice is not stable, so every order of the entries that
\* the comparison allows is a possible result.  Date-like fields sort in
\* descending order of the key, the others ascending.
sortFileData(fileData, sortField) ==
    LET n       == Len(fileData)
        reverse == sortField \in dateFields
        key(i)  == getSortKey(fileData[i], sortField)
        less(i, j) == IF reverse THEN key(i) > key(j) ELSE key(i) < key(j)
        perms   == {p \in [1..n -> 1..n] :
                      /\ \A i, j \in 1..n : i # j => p[i] # p[j]
                      /\ \A i, j \in 1..n : i < j => ~less(p[j], p[i])}
    IN {[i \in 1..n |-> fileData[p[i]]] : p \in perms}

\* The lines a line of an index template turns into for one entry: a paste
\* of a known snippet gives the snippet's processed lines.
IndexTemplateLine(line, directive, fileMetadata, snips, globs) ==
    IF directive.Type = "Paste" /\ directive.Name \in DOMAIN snips
    THEN SplitLines(ProcessContentWithDirectives(
             JoinLines(snips[directive.Name]), fileMetadata, globs))
    ELSE <<line>>

\* processIndexTemplate: the template rendered for one entry; the entry's
\* metadata are the local variables, the globals the meta variables.
processIndexTemplate(templateContent, fileMetadata, snips, globs) ==
    ProcessContentWithDirectives(
        JoinLines(Flatten([i \in 1..Len(templateContent) |->
            IndexTemplateLine(templateContent[i], ParseLine(templateContent[i], 0),
                              fileMetadata, snips, globs)])),
        fileMetadata, globs)

\* The entries rendered in the order fd, and the orders sortFileData allows.
RenderEntries(fd, templateContent, snips, globs) ==
    Flatten([k \in 1..Len(fd) |->
        SplitLines(processIndexTemplate(templateContent, fd[k], snips, globs))])

SortedEntries(fileData, sortField) ==
    IF sortField # "" /\ Len(fileData) > 0 THEN sortFileData(fileData, sortField)
    ELSE {fileData}

IndexOfLoaded(loaded, templateContent, sortField, snips, globs) ==
    IF \E k \in 1..Len(loaded) : loaded[k].panicked
    THEN {[panicked |-> TRUE, lines |-> <<>>]}
    ELSE {[panicked |-> FALSE, lines |-> RenderEntries(fd, templateContent, snips, globs)] :
             fd \in SortedEntries([k \in 1..Len(loaded) |-> loaded[k].metadata], sortField)}

IndexOfMatching(matching, templateContent, sortField, snips, globs) ==
    IndexOfLoaded([k \in 1..Len(matching) |-> loadFileMetadata(matching[k])],
                  templateContent, sortField, snips, globs)

IndexOfDirective(line, directive, tr, tmpls, snips, globs) ==
    IF \/ directive.Type # "Index"
       \/ Len(directive.Args) < 2
       \/ Str(directive.Args[2]) \notin DOMAIN tmpls
    THEN {[panicked |-> FALSE, lines |-> <<line>>]}
    ELSE IndexOfMatching(findMatchingFiles(directive.Args[1], tr),
                         tmpls[Str(directive.Args[2])],
                         IF Len(directive.Args) > 2 THEN Str(directive.Args[3]) ELSE "",
                         snips, globs)

\* The lines an index line may turn into: [panicked, lines].  The line is
\* kept when it has fewer than two arguments or names an unknown template.
IndexLine(line, i, tr, tmpls, snips, globs) ==
    IndexOfDirective(line, ParseLine(line, i), tr, tmpls, snips, globs)

\* ProcessIndexCommands: the contents the file may get, [panicked, content].
RECURSIVE ProcessIndexFrom(_, _, _, _, _, _, _)
ProcessIndexFrom(content, i, acc, tr, tmpls, snips, globs) ==
    IF i > Len(content) THEN acc
    ELSE ProcessIndexFrom(content, i + 1,
             UNION {IF a.panicked THEN {a}
                    ELSE {[panicked |-> r.panicked, content |-> a.content \o r.lines] :
                             r \in IndexLine(content[i], i - 1, tr, tmpls, snips, globs)} :
                    a \in acc},
             tr, tmpls, snips, globs)

ProcessIndexCommands(fileInfo, tr, tmpls, snips, globs) ==
    ProcessIndexFrom(fileInfo.Content, 1, {[panicked |-> FALSE, content |-> <<>>]},
                     tr, tmpls, snips, globs)

-----------------------------------------------------------------------------
(* watcher: Builder.doBuild as a state machine *)

\* The per-file loops of doBuild in the order they run, and the loop (or final
\* step) that follows each.
StageAfter(s) ==
    CASE s = "collectSnippets" -> "collectGlobals"
      [] s = "collectGlobals"  -> "reload"
      [] s = "includes"        -> "index"
      [] s = "index"           -> "snippets"
      [] s = "snippets"        -> "variables"
      [] s = "variables"       -> "copyAssets"

\* NextPos of a loop that stops after its first file.
NextPosFirstFileOnly(s, k, n) ==
    [stage |-> StageAfter(s), fileIdx |-> 1]

\* The position after file k of loop s over n files: the next file of the
\* loop, or the first file of the loop that follows.
NextPos(s, k, n) ==
    IF k < n THEN [stage |-> s, fileIdx |-> k + 1]
    ELSE [stage |-> StageAfter(s), fileIdx |-> 1]

Log(s, k) == Append(trace, <<s, k>>)

\* FileInfo.GetOutputPath: the name of the output file.
GetOutputPath(name) ==
    IF Ext(name) \in markdownExtensions THEN Front(name) \o <<"html">> ELSE name

\* A reset that keeps the table of the build before.
ResetTableKeeps(table) == table

\* "Reset state": the table of a build is a new, empty map.
ResetTable(table) == EmptyMap

\* doBuild up to the Collector: the tables are reset, the file list is taken
\* and every file of it is pre-loaded.
StartBuild ==
    /\ stage = "idle"
    /\ LET fileList == getFileList(tree)
       IN /\ tempFiles' = [k \in 1..Len(fileList) |-> LoadRaw(fileList[k])]
          /\ stage' = IF Len(fileList) = 0 THEN "reload" ELSE "collectSnippets"
    /\ files' = <<>>
    /\ snippets' = ResetTable(snippets)
    /\ templates' = ResetTable(templates)
    /\ globals' = ResetTable(globals)
    /\ fileIdx' = 1
    /\ trace' = Log("preload", 0)
    /\ UNCHANGED <<tree, written>>
    /\ UNCHANGED resolveVars
    /\ builds' = builds + 1
    /\ UNCHANGED envVars

\* collectSnippetsAndGlobals, first loop: one file.
CollectSnippets ==
    /\ stage = "collectSnippets"
    /\ LET r   == CollectSnippetsFromFile(tempFiles[fileIdx].Content, snippets, templates)
           pos == NextPos("collectSnippets", fileIdx, Len(tempFiles))
       IN /\ snippets' = r.snippets
          /\ templates' = r.templates
          /\ stage' = pos.stage
          /\ fileIdx' = pos.fileIdx
    /\ trace' = Log("collectSnippets", fileIdx)
    /\ UNCHANGED <<tree, tempFiles, files, globals, written>>
    /\ UNCHANGED resolveVars
    /\ UNCHANGED <<builds, envVars>>

\* collectSnippetsAndGlobals, second loop: one file.
CollectGlobals ==
    /\ stage = "collectGlobals"
    /\ LET pos == NextPos("collectGlobals", fileIdx, Len(tempFiles))
       IN /\ globals' = CollectGlobalsFromFile(tempFiles[fileIdx].Content, globals)
          /\ stage' = pos.stage
          /\ fileIdx' = pos.fileIdx
    /\ trace' = Log("collectGlobals", fileIdx)
    /\ UNCHANGED <<tree, tempFiles, files, snippets, templates, written>>
    /\ UNCHANGED resolveVars
    /\ UNCHANGED <<builds, envVars>>

\* The reload of every file of the file list into b.files.
Reload ==
    /\ stage = "reload"
    /\ LET fileList == getFileList(tree)
       IN /\ files' = [k \in 1..Len(fileList) |-> LoadWithTemplates(fileList[k])]
          /\ stage' = IF Len(fileList) = 0 THEN "copyAssets" ELSE "includes"
    /\ fileIdx' = 1
    /\ trace' = Log("reload", 0)
    /\ UNCHANGED <<tree, tempFiles, snippets, templates, globals, written>>
    /\ UNCHANGED resolveVars
    /\ UNCHANGED <<builds, envVars>>

\* processIncludes: one file.
Includes ==
    /\ stage = "includes"
    /\ LET pos == NextPos("includes", fileIdx, Len(files))
       IN /\ files' = [files EXCEPT ![fileIdx].Content = ProcessIncludes(files[fileIdx], tree)]
          /\ stage' = pos.stage
          /\ fileIdx' = pos.fileIdx
    /\ trace' = Log("includes", fileIdx)
    /\ UNCHANGED <<tree, tempFiles, snippets, templates, globals, written>>
    /\ UNCHANGED resolveVars
    /\ UNCHANGED <<builds, envVars>>

\* processIndexCommands: one file; a failure in the metadata loader ends the
\* program.
Index ==
    /\ stage = "index"
    /\ \E r \in ProcessIndexCommands(files[fileIdx], tree, templates, snippets, globals) :
          LET pos == NextPos("index", fileIdx, Len(files))
          IN IF r.panicked
             THEN /\ stage' = "panic"
                  /\ UNCHANGED <<files, fileIdx>>
             ELSE /\ files' = [files EXCEPT ![fileIdx].Content = r.content]
                  /\ stage' = pos.stage
                  /\ fileIdx' = pos.fileIdx
    /\ trace' = Log("index", fileIdx)
    /\ UNCHANGED <<tree, tempFiles, snippets, templates, globals, written>>
    /\ UNCHANGED resolveVars
    /\ UNCHANGED <<builds, envVars>>

\* ProcessSnippets of files[fileIdx] begins: its locals are initialised.
StartSnippets ==
    /\ stage = "snippets" /\ pc = "idle"
    /\ localSnippets' = EmptyMap
    /\ snippetStack' = <<>>
    /\ cutRanges' = <<>>
    /\ nestingLevel' = 0
    /\ scanIdx' = 0
    /\ currentData' = <<>>
    /\ iteration' = 0
    /\ pc' = "scan"
    /\ trace' = Log("snippets", fileIdx)
    /\ UNCHANGED <<tree, stage, fileIdx, tempFiles, files, snippets, templates, globals, written>>
    /\ UNCHANGED <<builds, envVars>>

\* One iteration of the local scan.
ScanLine ==
    /\ stage = "snippets" /\ pc = "scan"
    /\ scanIdx < Len(files[fileIdx].Content)
    /\ LET sc == LocalScanLine(files[fileIdx].Content, scanIdx,
                               [stack |-> snippetStack, local |-> localSnippets,
                                ranges |-> cutRanges, level |-> nestingLevel,
                                spin |-> FALSE])
       IN /\ snippetStack' = sc.stack
          /\ localSnippets' = sc.local
          /\ cutRanges' = sc.ranges
          /\ nestingLevel' = sc.level
          /\ pc' = IF sc.spin THEN "spin" ELSE "scan"
          /\ scanIdx' = IF sc.spin THEN scanIdx ELSE scanIdx + 1
    /\ UNCHANGED <<currentData, iteration>>
    /\ UNCHANGED buildVars
    /\ UNCHANGED <<builds, envVars>>

\* The local scan is over: the lines outside the cut ranges become the
\* working lines, and the expansion loop is set up.
CutRemoval ==
    /\ stage = "snippets" /\ pc = "scan"
    /\ scanIdx = Len(files[fileIdx].Content)
    /\ currentData' = RemoveCutRanges(files[fileIdx].Content, cutRanges)
    /\ iteration' = 0
    /\ pc' = "expand"
    /\ UNCHANGED <<localSnippets, snippetStack, cutRanges, nestingLevel, scanIdx>>
    /\ UNCHANGED buildVars
    /\ UNCHANGED <<builds, envVars>>

\* One pass of the expansion loop; the loop is left when the pass found no
\* paste or the pass counter has reached maxIterations.
ExpandPass ==
    /\ stage = "snippets" /\ pc = "expand"
    /\ iteration < maxIterations
    /\ LET pass == ExpansionPass(currentData, localSnippets, snippets)
       IN /\ currentData' = pass.newFile
          /\ iteration' = iteration + 1
          /\ pc' = IF ~pass.foundPaste \/ iteration + 1 >= maxIterations
                   THEN "finish" ELSE "expand"
    /\ UNCHANGED <<localSnippets, snippetStack, cutRanges, nestingLevel, scanIdx>>
    /\ UNCHANGED buildVars
    /\ UNCHANGED <<builds, envVars>>

\* ProcessSnippets returns: the working lines are the file's content.
FinishSnippets ==
    /\ stage = "snippets" /\ pc = "finish"
    /\ LET pos == NextPos("snippets", fileIdx, Len(files))
       IN /\ files' = [files EXCEPT ![fileIdx].Content = currentData]
          /\ stage' = pos.stage
          /\ fileIdx' = pos.fileIdx
    /\ localSnippets' = EmptyMap
    /\ snippetStack' = <<>>
    /\ cutRanges' = <<>>
    /\ nestingLevel' = 0
    /\ scanIdx' = 0
    /\ currentData' = <<>>
    /\ iteration' = 0
    /\ pc' = "idle"
    /\ UNCHANGED <<tree, tempFiles, snippets, templates, globals, written, trace>>
    /\ UNCHANGED <<builds, envVars>>

\* processVariables: one file is resolved and written; if the file cannot be
\* written, ProcessVariables returns the error, and so do processVariables and
\* doBuild.
Variables ==
    /\ stage = "variables"
    /\ LET pos == NextPos("variables", fileIdx, Len(files))
       IN IF GetOutputPath(files[fileIdx].Filename) \in unwritable
          THEN /\ stage' = "failed"
               /\ UNCHANGED <<written, fileIdx>>
          ELSE /\ written' = Put(written, GetOutputPath(files[fileIdx].Filename),
                                 ProcessVariables(files[fileIdx], templates, snippets, globals))
               /\ stage' = pos.stage
               /\ fileIdx' = pos.fileIdx
    /\ trace' = Log("variables", fileIdx)
    /\ UNCHANGED <<tree, tempFiles, files, snippets, templates, globals>>
    /\ UNCHANGED resolveVars
    /\ UNCHANGED <<builds, envVars>>

\* copyAssets: every file the build does not process is copied as it is.
CopyAssets ==
    /\ stage = "copyAssets"
    /\ LET assets == {k \in 1..Len(tree) :
                         Ext(tree[k].name) \notin markdownExtensions \cup {"html", "htm"}}
       IN written' = [n \in DOMAIN written \cup {tree[k].name : k \in assets} |->
                         IF \E k \in assets : tree[k].name = n
                         THEN tree[CHOOSE k \in assets : tree[k].name = n].text
                         ELSE written[n]]
    /\ stage' = "done"
    /\ trace' = Log("copyAssets", 0)
    /\ UNCHANGED <<tree, fileIdx, tempFiles, files, snippets, templates, globals>>
    /\ UNCHANGED resolveVars
    /\ UNCHANGED <<builds, envVars>>

Next ==
    \/ StartBuild
    \/ CollectSnippets
    \/ CollectGlobals
    \/ Reload
    \/ Includes
    \/ Index
    \/ StartSnippets
    \/ ScanLine
    \/ CutRemoval
    \/ ExpandPass
    \/ FinishSnippets
    \/ Variables
    \/ CopyAssets

-----------------------------------------------------------------------------
(* Source trees and specifications *)

\* A source file from its lines.
File(base, ext, lines) == [name |-> <<base, ".", ext>>, text |-> JoinLines(lines)]

\* The callers of doBuild that run on goroutines of their own: the callback
\* of the debounce timer and the two callbacks of the web handler.
Callers == {"timer", "configSave", "projectSwitch"}

\* The state before a build of the tree tr, as Builder's constructor leaves
\* it, on a disk where the output names in bad cannot be written.
BuilderInit(tr, bad) ==
    /\ tree = tr
    /\ stage = "idle"
    /\ fileIdx = 1
    /\ tempFiles = <<>>
    /\ files = <<>>
    /\ snippets = EmptyMap
    /\ templates = EmptyMap
    /\ globals = EmptyMap
    /\ written = EmptyMap
    /\ trace = <<>>
    /\ localSnippets = EmptyMap
    /\ snippetStack = <<>>
    /\ cutRanges = <<>>
    /\ nestingLevel = 0
    /\ scanIdx = 0
    /\ currentData = <<>>
    /\ iteration = 0
    /\ pc = "idle"
    /\ unwritable = bad
    /\ returned = <<>>
    /\ armedFor = 0
    /\ quietFor = 0
    /\ callbacks = 0
    /\ builds = 0
    /\ events = 0
    /\ timer = "nil"
    /\ active = [c \in Callers |-> 0]

InitWith(tr) == BuilderInit(tr, {})

\* All sequences over S of length at most n.
RECURSIVE SeqsUpTo(_, _)
SeqsUpTo(S, n) ==
    IF n = 0 THEN {<<>>}
    ELSE LET r == SeqsUpTo(S, n - 1) IN r \cup {Append(s, x) : s \in r, x \in S}

MaxLines == 4

\* Snippet trees: a.html is any file of at most MaxLines lines over blocks
\* and pastes of A and B; b.html defines B on top of A, or A and B on top of
\* each other.
SnippetLines ==
    { Text("a1"), Dir(<<"copy", "A">>), Dir(<<"cut", "A">>), Dir(<<"end">>),
      Dir(<<"paste", "A">>), Dir(<<"paste", "B">>) }

Definers ==
    { << Dir(<<"copy", "B">>), Text("b1"), Dir(<<"paste", "A">>), Dir(<<"end">>) >>,
      << Dir(<<"copy", "A">>), Text("g1"), Dir(<<"paste", "B">>), Dir(<<"end">>),
         Dir(<<"copy", "B">>), Text("b1"), Dir(<<"paste", "A">>), Dir(<<"end">>) >> }

SnippetTrees ==
    { << File("a", "html", f), File("b", "html", d) >> :
         f \in SeqsUpTo(SnippetLines, MaxLines), d \in Definers }

Init == \E tr \in SnippetTrees : InitWith(tr)

Spec == Init /\ [][Next]_vars

-----------------------------------------------------------------------------
(* Properties *)

HasPaste(data) == \E n \in 1..Len(data) : ParseLine(data[n], 0).Type = "Paste"

\* The steps ProcessSnippets can still take, at most, from where it is: the
\* lines left to scan, the passes the counter still allows, and the steps in
\* between.
ResolverRank ==
    CASE pc = "idle"   -> 0
      [] pc = "finish" -> 1
      [] pc = "expand" -> 2 + (maxIterations - iteration)
      [] pc = "scan"   -> 3 + maxIterations + (Len(files[fileIdx].Content) - scanIdx)
      [] pc = "spin"   -> 0

\* C1: ProcessSnippets terminates on every file and every snippet table: its
\* local scan never enters the endless adjustment loop and moves on by one line
\* at every step, its expansion loop never counts beyond maxIterations and is
\* left at the first pass that finds no paste, and every step of a run leaves
\* strictly fewer steps to go, so a run ends after at most
\* Len(content) + maxIterations + 3 steps.
C1_ProcessSnippetsTerminates ==
    /\ [](pc # "spin" /\ iteration <= maxIterations /\ ResolverRank >= 0)
    /\ [](pc = "scan" => scanIdx <= Len(files[fileIdx].Content))
    /\ [][pc # "idle" => ResolverRank' < ResolverRank]_vars
    /\ [][pc = "scan" /\ pc' = "scan" => scanIdx' = scanIdx + 1]_vars
    /\ [][pc = "expand" /\ ~HasPaste(currentData) => pc' = "finish"]_vars

\* C1 witness: a file whose pastes are still there after the last pass the
\* cap allows (A and B paste each other).
C1_CapReached ==
    /\ pc = "finish"
    /\ iteration = maxIterations
    /\ HasPaste(currentData)
    /\ "A" \in DOMAIN snippets /\ "B" \in DOMAIN snippets

-----------------------------------------------------------------------------
(* Blocks of a file as the directive grammar describes them *)

\* Opening and closing marker lines, by their written form.
IsOpenMarker(line) ==
    \E cmd \in {"copy", "cut", "template"}, n \in WordLexemes : line = Dir(<<cmd, n>>)

IsEndMarker(line) == line = Dir(<<"end">>)

\* The line of the `end` that closes the block opened just before line j,
\* depth counting the blocks opened and not yet closed since; 0 if none.
RECURSIVE CloseOf(_, _, _)
CloseOf(lines, j, depth) ==
    IF j > Len(lines) THEN 0
    ELSE IF IsOpenMarker(lines[j]) THEN CloseOf(lines, j + 1, depth + 1)
    ELSE IF IsEndMarker(lines[j])
    THEN IF depth = 0 THEN j ELSE CloseOf(lines, j + 1, depth - 1)
    ELSE CloseOf(lines, j + 1, depth)

\* The lines among lines[i..j] that are not block markers, in order.
PlainBetween(lines, i, j) ==
    Flatten([k \in 1..(j - i + 1) |->
                IF IsOpenMarker(lines[i + k - 1]) \/ IsEndMarker(lines[i + k - 1])
                THEN <<>> ELSE <<lines[i + k - 1]>>])

\* Does the lexeme occur in the text or in a line of the lines?
Occurs(x, text) == \E i \in 1..Len(text) : text[i] = x

OccursInLines(x, lines) == \E n \in 1..Len(lines) : Occurs(x, lines[n])

-----------------------------------------------------------------------------
(* Paste trees: a.html pastes A between two text lines, b.html defines A as a
   copy block over any body of at most MaxBody lines, c.html defines B *)

MaxBody == 3

BodyLines ==
    { Text("g1"), Dir(<<"paste", "B">>), Dir(<<"set", "x", "s">>), Dir(<<"if", "x">>),
      Dir(<<"endif">>), Dir(<<"copy", "B">>), Dir(<<"end">>), <<"{{", "x", "}}">> }

PasteTrees ==
    { << File("a", "html", << Text("Hi"), Dir(<<"paste", "A">>), Text("Bye") >>),
         File("b", "html", << Dir(<<"copy", "A">> ) >> \o body \o << Dir(<<"end">>) >>),
         File("c", "html", << Dir(<<"copy", "B">>), Text("b1"), Dir(<<"end">>) >>) >> :
         body \in SeqsUpTo(BodyLines, MaxBody) }

PasteInit == \E tr \in PasteTrees : InitWith(tr)

PasteSpec == PasteInit /\ [][Next]_vars

\* The lines of b.html, and the line of the `end` that closes its copy A.
DefinerLines == SplitLines(tree[2].text)

\* C2: when the copy A block of b.html is closed and a.html, which has no
\* block of its own, is resolved, the first
\* expansion pass leaves its paste A line replaced by exactly the lines
\* between `copy A` and the `end` that closes it in b.html, in order and without
\* markers, the directives among them included; when the resolver is done
\* with the file no paste is left in it, and no directive at all is left in
\* the file as written.
C2_PasteInsertsRecordedBody ==
    CloseOf(DefinerLines, 2, 0) > 0 =>
    /\ (stage = "snippets" /\ fileIdx = 1 /\ pc \in {"expand", "finish"} /\ iteration = 1)
          => currentData = << Text("Hi") >>
                             \o PlainBetween(DefinerLines, 2, CloseOf(DefinerLines, 2, 0) - 1)
                             \o << Text("Bye") >>
    /\ (stage = "snippets" /\ fileIdx = 1 /\ pc = "finish") => ~HasPaste(currentData)
    /\ (stage = "done") => ~Occurs("<!--", written[<<"a", ".", "html">>])

\* C2 witness: the first pass has put a body that holds a paste and a set
\* directive in the place of the paste line.
C2_BodyWithDirectivesPasted ==
    /\ stage = "snippets" /\ fileIdx = 1 /\ pc = "expand" /\ iteration = 1
    /\ currentData = << Text("Hi"), Dir(<<"paste", "B">>), Dir(<<"set", "x", "s">>),
                        Text("g1"), Text("Bye") >>

-----------------------------------------------------------------------------
(* Variable trees: a.html gives x a value at the set layer and at the
   frontmatter layer, or not, and names the template T, or not; b.html gives
   x a global default, or not, and defines T.  "none" marks an absent layer. *)

SetValues == {"none", "s", "false", "0", "true"}

FrontmatterValues == {"none", "f", "", "false", "0"}

GlobalValues == {"none", "g", "false", "0"}

\* The lexemes of a value.
ValueLexemes(v) == IF v \in {"none", ""} THEN <<>> ELSE <<v>>

VarPage(sv, fv, useTemplate) ==
    (IF fv = "none" THEN <<>>
     ELSE << FrontmatterMark, <<"x", ":", " ">> \o ValueLexemes(fv), FrontmatterMark >>)
    \o (IF sv = "none" THEN <<>>
        ELSE IF sv = "true" THEN << Dir(<<"set", "x">>) >>
        ELSE << Dir(<<"set", "x", sv>>) >>)
    \o (IF useTemplate THEN << Dir(<<"set", "template", "T">>) >> ELSE <<>>)
    \o << <<"a1", "{{", "x", "}}">>,
          Dir(<<"if", "x">>), Text("Hi"), Dir(<<"endif">>),
          <<"<!--", " ", "if", " ", "!", "x", " ", "-->">>, Text("Bye"), Dir(<<"endif">>),
          <<"u1">> \o Dir(<<"if", "x">>) \o <<"u2">> \o Dir(<<"endif">>),
          <<"b1">> \o <<"<!--", " ", "if", " ", "!", "x", " ", "-->">> \o <<"g2">>
                 \o Dir(<<"endif">>) >>

VarLayout(gv) ==
    (IF gv = "none" THEN <<>> ELSE << Dir(<<"global", "x", gv>>) >>)
    \o << Dir(<<"template", "T">>),
          <<"t1", "{{", "x", "}}">>,
          <<"{{", "content", "}}">>,
          <<"t2">> \o Dir(<<"if", "x">>) \o <<"yes">> \o Dir(<<"endif">>),
          Dir(<<"end">>) >>

VarTree(sv, fv, gv, useTemplate) ==
    << File("a", "html", VarPage(sv, fv, useTemplate)), File("b", "html", VarLayout(gv)) >>

VarTrees ==
    { VarTree(sv, fv, gv, useTemplate) :
         sv \in SetValues, fv \in FrontmatterValues, gv \in GlobalValues,
         useTemplate \in BOOLEAN }

VarInit == \E tr \in VarTrees : InitWith(tr)

VarSpec == VarInit /\ [][Next]_vars

\* The value of x by the documented priority, "none" if no layer defines it.
Effective(sv, fv, gv) == IF sv # "none" THEN sv ELSE IF fv # "none" THEN fv ELSE gv

\* The lines of a.html as written.
PageLines == SplitLines(written[<<"a", ".", "html">>])

HasLine(lines, line) == \E n \in 1..Len(lines) : lines[n] = line

\* C3: in a.html as written, the token of x in the body and the token of x in
\* the template stand replaced by the set value if there is one, else by the
\* frontmatter value if there is one, else by the global default (and by
\* nothing if there is none), and the `if x` block is kept exactly when that
\* value is truthy.
C3_SetOverFrontmatterOverGlobal ==
    \A sv \in SetValues, fv \in FrontmatterValues, gv \in GlobalValues,
       useTemplate \in BOOLEAN :
        (stage = "done" /\ tree = VarTree(sv, fv, gv, useTemplate)) =>
            LET v == Effective(sv, fv, gv)
            IN /\ HasLine(PageLines, <<"a1">> \o ValueLexemes(v))
               /\ useTemplate => HasLine(PageLines, <<"t1">> \o ValueLexemes(v))
               /\ HasLine(PageLines, Text("Hi")) <=> v \notin {"none", "", "false", "0"}

Truthy(v) == v \notin {"none", "", "false", "0"}

\* C6: in a.html as written, the `if x` block and the inline `if x` are kept
\* exactly when the effective value of x (set, else frontmatter, else global)
\* is defined and is none of "", "false", "0"; the `if !x` block and the
\* inline `if !x` are kept exactly when it is not; the same for the inline
\* `if x` of the template.
C6_TruthinessOfLayers ==
    \A sv \in SetValues, fv \in FrontmatterValues, gv \in GlobalValues,
       useTemplate \in BOOLEAN :
        (stage = "done" /\ tree = VarTree(sv, fv, gv, useTemplate)) =>
            LET t == Truthy(Effective(sv, fv, gv))
            IN /\ HasLine(PageLines, Text("Hi")) <=> t
               /\ HasLine(PageLines, Text("Bye")) <=> ~t
               /\ HasLine(PageLines, <<"u1", "u2">>) <=> t
               /\ HasLine(PageLines, <<"u1">>) <=> ~t
               /\ HasLine(PageLines, <<"b1", "g2">>) <=> ~t
               /\ HasLine(PageLines, <<"b1">>) <=> t
               /\ useTemplate => (HasLine(PageLines, <<"t2", "yes">>) <=> t)
               /\ useTemplate => (HasLine(PageLines, <<"t2">>) <=> ~t)

\* A frontmatter value of "0" hides a truthy global default.
C6_FalsyFrontmatterOverGlobal ==
    /\ stage = "done"
    /\ tree = VarTree("none", "0", "g", TRUE)
    /\ HasLine(PageLines, Text("Bye"))
    /\ HasLine(PageLines, <<"b1", "g2">>)
    /\ HasLine(PageLines, <<"t2">>)

-----------------------------------------------------------------------------
(* Cut trees: a.html opens `cut A` on its first line and goes on with any
   arrangement of at most MaxCut marker and text lines, none of them a paste;
   b.html pastes A. *)

MaxCut == 4

CutLines ==
    { Dir(<<"copy", "B">>), Dir(<<"cut", "C">>), Dir(<<"template", "T">>), Dir(<<"end">>),
      Text("a1"), Text("b1") }

CutTrees ==
    { << File("a", "html", << Dir(<<"cut", "A">>) >> \o rest),
         File("b", "html", << Dir(<<"paste", "A">>) >>) >> :
         rest \in SeqsUpTo(CutLines, MaxCut) }

CutInit == \E tr \in CutTrees : InitWith(tr)

CutSpec == CutInit /\ [][Next]_vars

\* The lines of the first file of the tree, and the `end` closing its first block.
FirstLines == SplitLines(tree[1].text)

FirstClose == CloseOf(FirstLines, 2, 0)

IsPlain(line) == ~IsOpenMarker(line) /\ ~IsEndMarker(line)

\* C4: when the `cut A` opened on the first line of a.html is closed, no text
\* line between the marker and the `end` closing it (and found nowhere after
\* that `end`) is a line of a.html as written, A is in the global snippet
\* table, and b.html is written as the text lines of the block.
C4_CutLinesLeaveDefiner ==
    (stage = "done" /\ FirstClose > 0) =>
        /\ \A n \in 2..(FirstClose - 1) :
              (/\ IsPlain(FirstLines[n])
               /\ \A m \in (FirstClose + 1)..Len(FirstLines) : FirstLines[m] # FirstLines[n])
              => ~HasLine(PageLines, FirstLines[n])
        /\ "A" \in DOMAIN snippets
        /\ written[<<"b", ".", "html">>] = JoinLines(PlainBetween(FirstLines, 2, FirstClose - 1))

-----------------------------------------------------------------------------
(* Shadow trees: a.html is any arrangement of at most MaxShadow lines that
   may define A locally over a1 and paste A; b.html, visited after it, defines
   A over g1, which is the body the global table holds; c.html pastes A. *)

MaxShadow == 4

ShadowLines ==
    { Dir(<<"copy", "A">>), Dir(<<"cut", "A">>), Dir(<<"end">>), Dir(<<"paste", "A">>),
      Text("a1") }

ShadowTrees ==
    { << File("a", "html", lines),
         File("b", "html", << Dir(<<"copy", "A">>), Text("g1"), Dir(<<"end">>) >>),
         File("c", "html", << Text("Hi"), Dir(<<"paste", "A">>) >>) >> :
         lines \in SeqsUpTo(ShadowLines, MaxShadow) \ {<<>>} }

ShadowInit == \E tr \in ShadowTrees : InitWith(tr)

ShadowSpec == ShadowInit /\ [][Next]_vars

\* Does the file define A in a closed copy or cut block?
DefinesLocally(lines) ==
    \E i \in 1..Len(lines) :
        /\ lines[i] \in {Dir(<<"copy", "A">>), Dir(<<"cut", "A">>)}
        /\ CloseOf(lines, i + 1, 0) > 0

\* C5: a.html with a closed block A of its own is never given the global
\* body g1, and its `paste A` after (or before) a block A over a1 is written
\* as a1; a.html with no block marker and a `paste A` is given g1; c.html is
\* written as Hi followed by g1; no step of ProcessSnippets changes the
\* global snippet table.
C5_LocalShadowsGlobal ==
    /\ [](stage = "done" =>
            /\ snippets["A"] = <<Text("g1")>>
            /\ DefinesLocally(FirstLines) => ~HasLine(PageLines, Text("g1"))
            /\ \A open \in {"copy", "cut"} :
                  LET kept == IF open = "copy" THEN <<Text("a1")>> ELSE <<>>
                      block == <<Dir(<<open, "A">>), Text("a1"), Dir(<<"end">>)>>
                  IN /\ FirstLines = block \o <<Dir(<<"paste", "A">>)>>
                        => PageLines = kept \o <<Text("a1")>>
                     /\ FirstLines = <<Dir(<<"paste", "A">>)>> \o block
                        => PageLines = <<Text("a1")>> \o kept
            /\ (/\ ~\E n \in 1..Len(FirstLines) : IsOpenMarker(FirstLines[n])
                /\ HasLine(FirstLines, Dir(<<"paste", "A">>)))
               => HasLine(PageLines, Text("g1"))
            /\ written[<<"c", ".", "html">>] = JoinLines(<<Text("Hi"), Text("g1")>>))
    /\ [][stage = "snippets" => snippets' = snippets]_vars

\* a.html cuts A over a1 and pastes it back while the global table holds g1.
C5_LocalCutPastedBack ==
    /\ stage = "done"
    /\ FirstLines = <<Dir(<<"cut", "A">>), Text("a1"), Dir(<<"end">>), Dir(<<"paste", "A">>)>>
    /\ snippets["A"] = <<Text("g1")>>
    /\ written[<<"a", ".", "html">>] = <<"a1">>
    /\ written[<<"c", ".", "html">>] = <<"Hi", NL, "g1">>

-----------------------------------------------------------------------------
(* Index trees: a.html lists the posts *.txt with template T sorted by date,
   b.html defines T as the entry's title, and each of the three posts carries
   one of the date values in its frontmatter. *)

DateValues ==
    { <<"2024", "-", "01", "-", "01">>, <<"01", "/", "02", "/", "2024">>, <<"not-a-date">>,
      <<"1969", "-", "12", "-", "31">>, <<"1970", "-", "01", "-", "01">> }

Post(base, date) ==
    File(base, "txt", << FrontmatterMark, <<"date", ":", " ">> \o date, FrontmatterMark,
                         Text("Hi") >>)

IndexTree(d1, d2, d3) ==
    << File("a", "html",
            << <<"<!--", " ", "index", " ", "*", ".", "txt", " ", "T", " ", "date", " ", "-->">> >>),
       File("b", "html",
            << Dir(<<"template", "T">>), <<"{{", "title", "}}">>, Dir(<<"end">>) >>),
       Post("p1", d1), Post("p2", d2), Post("p3", d3) >>

IndexTrees == { IndexTree(d1, d2, d3) : d1, d2, d3 \in DateValues }

IndexInit == \E tr \in IndexTrees : InitWith(tr)

IndexSpec == IndexInit /\ [][Next]_vars

\* The calendar day a date value of the trees denotes, <<>> for a value that
\* is in none of the date formats.
CalendarDay(date) ==
    CASE date = <<"2024", "-", "01", "-", "01">> -> <<2024, 1, 1>>
      [] date = <<"01", "/", "02", "/", "2024">> -> <<2024, 1, 2>>
      [] date = <<"1969", "-", "12", "-", "31">> -> <<1969, 12, 31>>
      [] date = <<"1970", "-", "01", "-", "01">> -> <<1970, 1, 1>>
      [] OTHER -> <<>>

Before(x, y) ==
    \/ x[1] < y[1]
    \/ x[1] = y[1] /\ x[2] < y[2]
    \/ x[1] = y[1] /\ x[2] = y[2] /\ x[3] < y[3]

\* C7: a.html is written as the titles of the three posts, no post with an
\* earlier date before a post with a later date, and no post whose date value
\* is in none of the formats before a post whose date value is a date.
C7_IndexInDescendingDateOrder ==
    \A d1, d2, d3 \in DateValues :
        (stage = "done" /\ tree = IndexTree(d1, d2, d3)) =>
            LET dayOf(line) == CASE line = Text("p1") -> CalendarDay(d1)
                                 [] line = Text("p2") -> CalendarDay(d2)
                                 [] line = Text("p3") -> CalendarDay(d3)
            IN /\ Len(PageLines) = 3
               /\ {PageLines[n] : n \in 1..3} = {Text("p1"), Text("p2"), Text("p3")}
               /\ \A i, j \in 1..3 :
                     i < j =>
                        /\ (dayOf(PageLines[i]) # <<>> /\ dayOf(PageLines[j]) # <<>>)
                              => ~Before(dayOf(PageLines[i]), dayOf(PageLines[j]))
                        /\ ~(dayOf(PageLines[i]) = <<>> /\ dayOf(PageLines[j]) # <<>>)

-----------------------------------------------------------------------------
(* Plain trees: a.html is any text of at most MaxPlain lines that are no
   directives and no frontmatter, with a trailing newline or not; b.html
   defines a global, a snippet or a template, and may name the template as
   the global default. *)

MaxPlain == 3

PlainLines ==
    { Text("Hi"), <<>>, <<" ">>, <<"a1", "{{", "x", "}}">>,
      <<"<!--", " ", "Hi", " ", "-->">> }

LayoutT == << Dir(<<"template", "T">>), Text("t1"), <<"{{", "content", "}}">>, Dir(<<"end">>) >>

OtherDefinitions ==
    { << Dir(<<"global", "x", "g">>) >>,
      << Dir(<<"copy", "A">>), Text("g1"), Dir(<<"end">>) >>,
      LayoutT,
      << Dir(<<"global", "template", "T">>) >>,
      << Dir(<<"global", "template", "T">>) >> \o LayoutT,
      << Dir(<<"global", "x", "g">>), Dir(<<"global", "template", "T">>) >> \o LayoutT }

PlainTrees ==
    { << [name |-> <<"a", ".", "html">>, text |-> JoinLines(lines) \o tail],
         File("b", "html", other) >> :
         lines \in SeqsUpTo(PlainLines, MaxPlain), tail \in {<<>>, <<NL>>},
         other \in OtherDefinitions }

PlainInit == \E tr \in PlainTrees : InitWith(tr)

PlainSpec == PlainInit /\ [][Next]_vars

\* The input lines of the first file of the tree.
InputLines == ScanLines(tree[1].text)

IsToken(line) ==
    \E i \in 1..(Len(line) - 2) :
        line[i] = "{{" /\ line[i + 1] \in WordLexemes /\ line[i + 2] = "}}"

\* C8 as stated: a.html is written as its input lines, whatever b.html defines.
C8_PlainFileUnchanged ==
    stage = "done" => written[<<"a", ".", "html">>] = JoinLines(InputLines)

\* C8, amended: a.html is written as its input lines when none of them holds
\* a {{name}} token and the global default of template, if any, names no
\* defined template.
C8_PlainFileUnchangedWithoutTokenOrLayout ==
    (/\ stage = "done"
     /\ ~\E n \in 1..Len(InputLines) : IsToken(InputLines[n])
     /\ ~("template" \in DOMAIN globals /\ Str(globals["template"]) \in DOMAIN templates))
    => written[<<"a", ".", "html">>] = JoinLines(InputLines)

\* A file of a text line, a blank line and a comment that is no directive
\* comes through while the tree defines a global, and a template nobody names.
C8_CommentAndBlankKept ==
    /\ stage = "done"
    /\ InputLines = << Text("Hi"), <<>>, <<"<!--", " ", "Hi", " ", "-->">> >>
    /\ "T" \in DOMAIN templates
    /\ written[<<"a", ".", "html">>] = <<"Hi", NL, NL, "<!--", " ", "Hi", " ", "-->">>

-----------------------------------------------------------------------------
(* Footer trees: a.html is a post, a heading followed by `paste footer`, with
   the frontmatter title: Hi or without; b.html defines footer on one line,
   on one line with more lines after it, or on three lines. *)

OneLineFooter == Dir(<<"copy", "footer">>) \o <<"Bye">> \o Dir(<<"end">>)

ThreeLineFooter == << Dir(<<"copy", "footer">>), Text("Bye"), Dir(<<"end">>) >>

Headings == { <<"#", " ", "Hi">>, Text("Hi") }

FooterDefiners ==
    { << OneLineFooter >>,
      << OneLineFooter, Text("g1") >>,
      << OneLineFooter, Text("g1"), Dir(<<"end">>) >>,
      ThreeLineFooter,
      ThreeLineFooter \o << Text("g1") >> }

FooterTree(heading, withTitle, definer) ==
    << File("a", "html",
            (IF withTitle
             THEN << FrontmatterMark, <<"title", ":", " ", "Hi">>, FrontmatterMark >>
             ELSE <<>>)
            \o << heading, Dir(<<"paste", "footer">>) >>),
       File("b", "html", definer) >>

FooterTrees ==
    { FooterTree(heading, withTitle, definer) :
         heading \in Headings, withTitle \in BOOLEAN, definer \in FooterDefiners }

FooterInit == \E tr \in FooterTrees : InitWith(tr)

FooterSpec == FooterInit /\ [][Next]_vars

\* The lines of the second file of the tree.
SecondLines == SplitLines(tree[2].text)

-----------------------------------------------------------------------------
(* The order of the stages of a build, read off the log of its steps *)

\* The place of a stage in doBuild.
StageRank(s) ==
    CASE s = "preload" -> 0 [] s = "collectSnippets" -> 1 [] s = "collectGlobals" -> 2
      [] s = "reload" -> 3 [] s = "includes" -> 4 [] s = "index" -> 5
      [] s = "snippets" -> 6 [] s = "variables" -> 7 [] s = "copyAssets" -> 8

PerFileStages ==
    {"collectSnippets", "collectGlobals", "includes", "index", "snippets", "variables"}

\* C10: the log of a build never goes back to an earlier stage and visits
\* the files of a stage in order; when a step of a stage is logged, every
\* earlier per-file stage (the Collector's two loops first of all) has been
\* logged for every file of the tree; the resolver is at rest outside the
\* Snippet Resolver stage; and a.html beginning with `paste B` is written
\* with the line b1 of B, which b.html, visited after it, defines.
C10_StagesRunOverAllFilesInTurn ==
    /\ \A i, j \in 1..Len(trace) :
          i < j =>
             /\ StageRank(trace[i][1]) <= StageRank(trace[j][1])
             /\ trace[i][1] = trace[j][1] => trace[i][2] < trace[j][2]
    /\ \A j \in 1..Len(trace) :
          \A s \in PerFileStages :
             StageRank(s) < StageRank(trace[j][1]) =>
                \A k \in 1..Len(getFileList(tree)) :
                   \E i \in 1..(j - 1) : trace[i] = <<s, k>>
    /\ stage # "snippets" => pc = "idle"
    /\ (stage = "done" /\ FirstLines # <<>> /\ FirstLines[1] = Dir(<<"paste", "B">>))
          => HasLine(PageLines, Text("b1"))

\* a.html, the first file visited, pastes B and is written with B's line.
C10_PasteOfLaterDefinition ==
    /\ stage = "done"
    /\ FirstLines = << Dir(<<"paste", "B">>) >>
    /\ \E i, j \in 1..Len(trace) :
          i < j /\ trace[i] = <<"collectSnippets", 2>> /\ trace[j] = <<"snippets", 1>>
    /\ HasLine(PageLines, Text("b1"))

-----------------------------------------------------------------------------
(* watcher: the callers of doBuild (watchLoop, the debounce timer, the web *)
(* handler).  A doBuild in progress is a goroutine between its call and    *)
(* its return; what it does to the Builder in between is the state machine *)
(* above.                                                                  *)

MaxEvents == 2

MaxActive == 2

\* The doBuild executions in progress.
InProgress == active["timer"] + active["configSave"] + active["projectSwitch"]

\* A goroutine of kind c calls doBuild; nothing is taken or tested before
\* the call.
CallDoBuild(c) == [active EXCEPT ![c] = @ + 1]

\* A file system event for the watched directory arrives in the channel.
FsEvent ==
    /\ events < MaxEvents
    /\ events' = events + 1
    /\ UNCHANGED <<timer, active, unwritable, builds, returned, timeVars>>
    /\ UNCHANGED <<buildVars, resolveVars>>

\* watchLoop takes an event: a write or create stops the timer, if there is
\* one, and starts a new one; any other operation is ignored.
WatchLoopEvent ==
    /\ events > 0
    /\ events' = events - 1
    /\ \E op \in {"Write", "Create", "Chmod"} :
          timer' = IF op \in {"Write", "Create"} THEN "armed" ELSE timer
    /\ UNCHANGED <<active, unwritable, builds, returned, timeVars>>
    /\ UNCHANGED <<buildVars, resolveVars>>

\* The debounce time has passed: the timer runs the callback, which calls
\* doBuild, on a goroutine of its own.
TimerCallback ==
    /\ timer = "armed"
    /\ active["timer"] < MaxActive
    /\ timer' = "fired"
    /\ active' = CallDoBuild("timer")
    /\ UNCHANGED <<events, unwritable, builds, returned, timeVars>>
    /\ UNCHANGED <<buildVars, resolveVars>>

\* The web handler, on the goroutine of a request, calls the config-save
\* callback, which calls doBuild.
ConfigSaveCallback ==
    /\ active["configSave"] < MaxActive
    /\ active' = CallDoBuild("configSave")
    /\ UNCHANGED <<events, timer, unwritable, builds, returned, timeVars>>
    /\ UNCHANGED <<buildVars, resolveVars>>

\* The web handler, on the goroutine of a request, calls the project-switch
\* callback, which calls doBuild.
ProjectSwitchCallback ==
    /\ active["projectSwitch"] < MaxActive
    /\ active' = CallDoBuild("projectSwitch")
    /\ UNCHANGED <<events, timer, unwritable, builds, returned, timeVars>>
    /\ UNCHANGED <<buildVars, resolveVars>>

\* A doBuild in progress returns to its caller.
DoBuildReturns ==
    /\ \E c \in Callers :
          /\ active[c] > 0
          /\ active' = [active EXCEPT ![c] = @ - 1]
    /\ UNCHANGED <<events, timer, unwritable, builds, returned, timeVars>>
    /\ UNCHANGED <<buildVars, resolveVars>>

WatchNext ==
    \/ FsEvent
    \/ WatchLoopEvent
    \/ TimerCallback
    \/ ConfigSaveCallback
    \/ ProjectSwitchCallback
    \/ DoBuildReturns

\* hostAndWatch after the first build of the tree: the watcher and the web
\* server are running.
WatchInit == InitWith(<< File("a", "html", <<Text("Hi")>>) >>)

WatchSpec == WatchInit /\ [][WatchNext]_vars

\* C11: at most one execution of doBuild is in progress at any time, over
\* all interleavings of the callback of the debounce timer and the
\* config-save and project-switch callbacks of the web handler.
C11_AtMostOneBuildInProgress == InProgress <= 1

-----------------------------------------------------------------------------
(* Builds on a disk where some output files cannot be written *)

\* Write trees: three pages of one line each, in walk order, and any set of
\* their output names unwritable.
PageNames == {<<"a", ".", "html">>, <<"b", ".", "html">>, <<"c", ".", "html">>}

PageTexts == {Text("a1"), Text("b1"), Dir(<<"set", "x", "s">>), Text("{{x}}")}

WriteTrees ==
    { << File("a", "html", <<la>>), File("b", "html", <<lb>>), File("c", "html", <<lc>>) >> :
         la \in PageTexts, lb \in PageTexts, lc \in PageTexts }

WriteInit == \E tr \in WriteTrees, bad \in SUBSET PageNames : BuilderInit(tr, bad)

WriteSpec == WriteInit /\ [][Next]_vars

\* C12: output is all-or-nothing per build: when a build has failed because
\* an output file could not be written, no output file of that build has
\* been written.
C12_FailedBuildWroteNothing == stage = "failed" => DOMAIN written = {}

-----------------------------------------------------------------------------
(* The Collector at the end of a file *)

\* The content opens a copy or cut block of A on its first line and neither
\* closes it nor opens another block: the block is open at the end of the
\* file, with every line after the first accumulated.
OpensUnclosedA(content) ==
    /\ Len(content) >= 1
    /\ ParseLine(content[1], 0).Type \in {"Copy", "Cut"}
    /\ ParseLine(content[1], 0).Name = "A"
    /\ \A i \in 2..Len(content) :
          /\ ParseLine(content[i], 0).Type \notin {"Copy", "Cut", "Template"}
          /\ ~IsBlockEnd(content[i])

\* C13: when a file ends while a copy or cut block is still open, the
\* Collector commits the block to the snippet table with the lines it has
\* accumulated: after the first file, whose block of A is open at its end, A
\* is in the table with those lines.
C13_UnclosedBlockCommitted ==
    (stage = "collectSnippets" /\ fileIdx = 2 /\ OpensUnclosedA(tempFiles[1].Content))
        => /\ "A" \in DOMAIN snippets
           /\ snippets["A"] = Tail(tempFiles[1].Content)

-----------------------------------------------------------------------------
(* Duplicate trees: a.html holds two definitions and b.html one, each a copy,
   cut or template block of A, a global of x, or a copy block of A with
   another copy block of A nested in it *)

MaxDupLines == 14

DupUnits ==
    { << Dir(<<"copy", "A">>), Text("a1"), Dir(<<"end">>) >>,
      << Dir(<<"cut", "A">>), Text("b1"), Dir(<<"end">>) >>,
      << Dir(<<"copy", "A">>), Dir(<<"end">>) >>,
      << Dir(<<"template", "A">>), Text("t1"), Dir(<<"end">>) >>,
      << Dir(<<"template", "A">>), Text("t2"), Dir(<<"global", "x", "s">>), Dir(<<"end">>) >>,
      << Dir(<<"global", "x", "g">>) >>,
      << Dir(<<"copy", "A">>), Text("g1"), Dir(<<"copy", "A">>), Text("g2"), Dir(<<"end">>),
         Text("u1"), Dir(<<"end">>) >> }

DupTrees ==
    { << File("a", "html", u1 \o u2), File("b", "html", u3) >> :
         u1 \in DupUnits, u2 \in DupUnits, u3 \in DupUnits }

DupInit == \E tr \in DupTrees : InitWith(tr)

DupSpec == DupInit /\ [][Next]_vars

\* The definitions of the name in the tables of the commands cmds, as the
\* files write them: <<file, closing line, opening line>> of every block of
\* that name that is closed.
DefinitionsOf(cmds, name) ==
    { d \in { <<k, CloseOf(tempFiles[k].Content, i + 1, 0), i>> :
                 k \in 1..Len(tempFiles), i \in 1..MaxDupLines } :
         /\ d[3] <= Len(tempFiles[d[1]].Content)
         /\ \E cmd \in cmds : tempFiles[d[1]].Content[d[3]] = Dir(<<cmd, name>>)
         /\ d[2] > 0 }

\* Visiting order: files in walk order, lines top to bottom.
ComesBefore(d, e) == d[1] < e[1] \/ (d[1] = e[1] /\ d[2] < e[2])

LastOf(ds) == CHOOSE d \in ds : \A e \in ds : e = d \/ ComesBefore(e, d)

BodyOf(d) == PlainBetween(tempFiles[d[1]].Content, d[3] + 1, d[2] - 1)

\* The table has the name exactly if it has a definition, and then with the
\* body of the definition that is completed last.
LastDefinitionIn(table, cmds, name) ==
    IF DefinitionsOf(cmds, name) = {} THEN name \notin DOMAIN table
    ELSE name \in DOMAIN table /\ table[name] = BodyOf(LastOf(DefinitionsOf(cmds, name)))

\* The `global x` lines as the files write them: <<file, line, line>>.
GlobalLinesOf(name) ==
    { d \in { <<k, i, i>> : k \in 1..Len(tempFiles), i \in 1..MaxDupLines } :
         /\ d[2] <= Len(tempFiles[d[1]].Content)
         /\ \E v \in {"g", "s"} : tempFiles[d[1]].Content[d[2]] = Dir(<<"global", name, v>>) }

GlobalValueAt(d) == << tempFiles[d[1]].Content[d[2]][7] >>

\* C14: last definition wins.  Once the Collector has read every file, the
\* snippet table has for A the body of the copy or cut block of A that comes
\* last in the visiting order, the template table the body of the last
\* template block of A, and the globals the value of the last `global x`
\* line; without a definition the table has no entry.
C14_LastDefinitionWins ==
    /\ stage \notin {"idle", "collectSnippets"} =>
          /\ LastDefinitionIn(snippets, {"copy", "cut"}, "A")
          /\ LastDefinitionIn(templates, {"template"}, "A")
    /\ stage \notin {"idle", "collectSnippets", "collectGlobals"} =>
          IF GlobalLinesOf("x") = {} THEN "x" \notin DOMAIN globals
          ELSE "x" \in DOMAIN globals /\ globals["x"] = GlobalValueAt(LastOf(GlobalLinesOf("x")))

\* C14 witness: a.html defines A as a copy block and then as a cut block,
\* b.html as a copy block again, and the table has the body from b.html.
C14_ThreeDefinitionsOfA ==
    /\ stage = "done"
    /\ tempFiles[1].Content = << Dir(<<"copy", "A">>), Text("a1"), Dir(<<"end">>),
                                 Dir(<<"cut", "A">>), Text("b1"), Dir(<<"end">>) >>
    /\ tempFiles[2].Content = << Dir(<<"copy", "A">>), Dir(<<"end">>) >>
    /\ snippets["A"] = <<>>

-----------------------------------------------------------------------------
(* Token trees: a.html names no template, the template T of b.html or the
   template U that no file defines, by a set directive or in its frontmatter;
   its body is any two lines over tokens of x and foo, a set of x and text.
   foo is defined in no layer. *)

TokenLayouts == {"none", "T", "U"}

TokenBodyLines ==
    { <<"a1", "{{", "foo", "}}">>, <<"{{", "x", "}}">>, Dir(<<"set", "x", "s">>), Text("Hi") }

TokenPage(layout, inFrontmatter, body) ==
    (IF layout # "none" /\ inFrontmatter
     THEN << FrontmatterMark, <<"template", ":", " ", layout>>, FrontmatterMark >>
     ELSE <<>>)
    \o (IF layout # "none" /\ ~inFrontmatter
        THEN << Dir(<<"set", "template", layout>>) >> ELSE <<>>)
    \o body

TokenLayout ==
    << Dir(<<"template", "T">>), <<"t1", "{{", "foo", "}}">>, <<"{{", "content", "}}">>,
       Dir(<<"end">>) >>

TokenTrees ==
    { << File("a", "html", TokenPage(layout, inFrontmatter, <<l1, l2>>)),
         File("b", "html", TokenLayout) >> :
         layout \in TokenLayouts, inFrontmatter \in BOOLEAN,
         l1 \in TokenBodyLines, l2 \in TokenBodyLines }

TokenInit == \E tr \in TokenTrees : InitWith(tr)

TokenSpec == TokenInit /\ [][Next]_vars

\* C15: in the written output of every processed file no {{name}} token is
\* left: a token whose name no layer defines has been replaced by the empty
\* string, whether or not the file names a template and whether or not that
\* template exists.
C15_NoTokenLeftInOutput ==
    stage = "done" =>
        \A n \in DOMAIN written : \A k \in 1..Len(SplitLines(written[n])) :
            ~IsToken(SplitLines(written[n])[k])

-----------------------------------------------------------------------------
(* Entry trees: a.html lists the post p1.txt with template T, whose line is
   the entry's title followed by a token of foo; the post gives foo a value in
   its frontmatter, or not, and b.html gives foo a global default, or not *)

EntryPost(withFoo) ==
    File("p1", "txt",
         << FrontmatterMark >>
         \o (IF withFoo THEN << <<"foo", ":", " ", "f">> >> ELSE <<>>)
         \o << <<"title", ":", " ", "Hi">>, FrontmatterMark, Text("a1") >>)

EntryTails == { <<>>, <<"b1">>, <<"{{", "x", "}}">> }

EntryTree(withFoo, withGlobal, tail) ==
    << File("a", "html",
            << <<"<!--", " ", "index", " ", "*", ".", "txt", " ", "T", " ", "-->">> >>),
       File("b", "html",
            (IF withGlobal THEN << Dir(<<"global", "foo", "g">>) >> ELSE <<>>)
            \o << Dir(<<"template", "T">>),
                  <<"{{", "title", "}}", "{{", "foo", "}}">> \o tail,
                  Dir(<<"end">>) >>),
       EntryPost(withFoo) >>

EntryTrees ==
    { EntryTree(withFoo, withGlobal, tail) :
         withFoo \in BOOLEAN, withGlobal \in BOOLEAN, tail \in EntryTails }

EntryInit == \E tr \in EntryTrees : InitWith(tr)

EntrySpec == EntryInit /\ [][Next]_vars

\* C16: when an index template is rendered for an entry, a token whose name
\* is neither in the entry's metadata nor a global is left in the rendered
\* text as it is: when the Index Expander is done with a.html and foo is
\* defined nowhere, the rendered line still holds the token of foo.
C16_UndefinedTokenLeftInEntry ==
    \A tail \in EntryTails :
        (stage = "index" /\ fileIdx = 2 /\ tree = EntryTree(FALSE, FALSE, tail)) =>
            /\ Len(files[1].Content) = 1
            /\ Len(files[1].Content[1]) >= 4
            /\ SubSeq(files[1].Content[1], 1, 4) = <<"Hi", "{{", "foo", "}}">>

-----------------------------------------------------------------------------
(* Missing-snippet trees: a.html is any file of at most MaxMissing lines over
   text, a blank line, a set, a paste of B, which b.html defines, and a paste
   of A, which no file defines *)

MaxMissing == 3

MissingLines ==
    { Text("a1"), Text("b1"), <<>>, Dir(<<"set", "x", "s">>),
      Dir(<<"paste", "B">>), Dir(<<"paste", "A">>) }

MissingTrees ==
    { << File("a", "html", f),
         File("b", "html", << Dir(<<"copy", "B">>), Text("g1"), Dir(<<"end">>) >>) >> :
         f \in SeqsUpTo(MissingLines, MaxMissing) \ {<<>>} }

MissingInit == \E tr \in MissingTrees : InitWith(tr)

MissingSpec == MissingInit /\ [][Next]_vars

\* The input lines of a.html with the lines `drop` taken out and every paste
\* of B replaced by the body of B.
WithoutLines(drop) ==
    Flatten([n \in 1..Len(InputLines) |->
                IF InputLines[n] \in drop THEN <<>>
                ELSE IF InputLines[n] = Dir(<<"paste", "B">>) THEN << Text("g1") >>
                ELSE << InputLines[n] >>])

\* C17: a paste of a name that is in neither snippet table is removed and
\* nothing is put in its place, every other line keeps its content and its
\* place among the others, and the build does not fail: the resolver leaves
\* a.html as its input without the paste A lines, and a.html is written as
\* that without its set lines.
C17_UnknownPasteDropped ==
    /\ stage \notin {"failed", "panic"}
    /\ (stage \in {"variables", "copyAssets", "done"} \/ (stage = "snippets" /\ fileIdx = 2))
          => files[1].Content = WithoutLines({Dir(<<"paste", "A">>)})
    /\ stage = "done"
          => written[<<"a", ".", "html">>]
                = JoinLines(WithoutLines({Dir(<<"paste", "A">>), Dir(<<"set", "x", "s">>)}))

\* C17 witness: a.html with a paste of A between two text lines is written as
\* the two text lines.
C17_PasteBetweenTextLines ==
    /\ stage = "done"
    /\ InputLines = << Text("a1"), Dir(<<"paste", "A">>), Text("b1") >>
    /\ written[<<"a", ".", "html">>] = JoinLines(<< Text("a1"), Text("b1") >>)

-----------------------------------------------------------------------------
(* Malformed trees: a.html has one comment line that does not satisfy the
   directive grammar between two text lines; b.html defines the snippet A and
   the template T, and p1.txt is a post an index could list *)

Comment(lexemes) == <<"<!--", " ">> \o lexemes \o <<" ", "-->">>

MalformedLines ==
    { Comment(<<"foo", " ", "A">>),
      Comment(<<"copy">>), Comment(<<"cut">>), Comment(<<"paste">>),
      Comment(<<"set">>), Comment(<<"global">>), Comment(<<"template">>),
      Comment(<<"copy", " ", "A", "!">>), Comment(<<"paste", " ", "!", "A">>),
      Comment(<<"set", " ", "x", "!", " ", "s">>),
      Comment(<<"if">>), Comment(<<"include">>), Comment(<<"index">>),
      Comment(<<"index", " ", "*", ".", "txt">>) }

MalformedTree(m) ==
    << File("a", "html", << Text("Hi"), m, Text("Bye") >>),
       File("b", "html", << Dir(<<"copy", "A">>), Text("a1"), Dir(<<"end">>),
                            Dir(<<"template", "T">>), Text("t1"), Dir(<<"end">>) >>),
       File("p1", "txt", << Text("b1") >>) >>

MalformedInit == \E m \in MalformedLines : InitWith(MalformedTree(m))

MalformedSpec == MalformedInit /\ [][Next]_vars

\* C18: a comment line that does not satisfy the directive grammar is
\* ordinary text to every stage: the build does not fail, the line opens and
\* closes no block (the tables hold what b.html defines and nothing else),
\* and a.html is written with the line in its place.
C18_MalformedLineIsText ==
    /\ stage \notin {"failed", "panic"}
    /\ DOMAIN snippets \subseteq {"A"}
    /\ DOMAIN templates \subseteq {"T"}
    /\ stage = "done" => written[<<"a", ".", "html">>] = JoinLines(InputLines)

-----------------------------------------------------------------------------
(* Rebuild trees: a.html pastes A and holds a token of x; b.html defines any
   of the snippet A, the template T and the global x.  Between two builds the
   watched sources change to another tree of the family. *)

MaxBuilds == 3

RebuildDefiner(withA, withT, withX) ==
    (IF withA THEN << Dir(<<"copy", "A">>), Text("a1"), Dir(<<"end">>) >> ELSE <<>>)
    \o (IF withT THEN << Dir(<<"template", "T">>), Text("t1"), Dir(<<"end">>) >> ELSE <<>>)
    \o (IF withX THEN << Dir(<<"global", "x", "g">>) >> ELSE <<>>)
    \o << Text("b1") >>

RebuildTree(withA, withT, withX) ==
    << File("a", "html", << Text("Hi"), Dir(<<"paste", "A">>), <<"{{", "x", "}}">> >>),
       File("b", "html", RebuildDefiner(withA, withT, withX)) >>

RebuildTrees ==
    { RebuildTree(withA, withT, withX) :
         withA \in BOOLEAN, withT \in BOOLEAN, withX \in BOOLEAN }

\* A build is done and the watched sources are written anew: watchLoop starts
\* the debounce timer and its callback is about to call doBuild again, on the
\* same Builder.
SourceChange ==
    /\ stage = "done"
    /\ builds < MaxBuilds
    /\ \E tr \in RebuildTrees : tree' = tr
    /\ stage' = "idle"
    /\ UNCHANGED <<fileIdx, tempFiles, files, snippets, templates, globals, written, trace>>
    /\ UNCHANGED resolveVars
    /\ UNCHANGED <<builds, envVars>>

RebuildNext == Next \/ SourceChange

RebuildInit == \E tr \in RebuildTrees : InitWith(tr)

RebuildSpec == RebuildInit /\ [][RebuildNext]_vars

\* C19: every build starts from empty tables.  In every build, once the
\* Collector is done, the tables hold A, T and x exactly if the sources as
\* they are now define them, whatever the builds before have defined; and
\* a.html is written with the body of A and the value of x exactly if they
\* are defined now.
C19_TablesOfThisBuildOnly ==
    \A withA \in BOOLEAN, withT \in BOOLEAN, withX \in BOOLEAN :
        tree = RebuildTree(withA, withT, withX) =>
            /\ stage \notin {"idle", "collectSnippets"} =>
                  /\ ("A" \in DOMAIN snippets) <=> withA
                  /\ ("T" \in DOMAIN templates) <=> withT
            /\ stage \notin {"idle", "collectSnippets", "collectGlobals"} =>
                  (("x" \in DOMAIN globals) <=> withX)
            /\ stage = "done" =>
                  /\ HasLine(PageLines, Text("a1")) <=> withA
                  /\ HasLine(PageLines, Text("g")) <=> withX

\* C19 witness: the second build is about to write a.html, whose output of
\* the first build still has the body of A and the value of x; the sources
\* define neither now, and the tables have neither.
C19_RemovedDefinitionAbsent ==
    /\ builds = 2 /\ stage = "variables" /\ fileIdx = 1
    /\ tree = RebuildTree(FALSE, TRUE, FALSE)
    /\ HasLine(PageLines, Text("a1")) /\ HasLine(PageLines, Text("g"))
    /\ "A" \notin DOMAIN snippets /\ "x" \notin DOMAIN globals

-----------------------------------------------------------------------------
(* Nesting trees: a.html sets x and goes on with at most MaxNest lines of
   `if` blocks, nested at most two deep, over the true condition x and the
   false conditions foo and !x, each `if` closed by an `endif` of its own. *)

MaxNest == 5

IfTrue == Dir(<<"if", "x">>)

IfFalse == Dir(<<"if", "foo">>)

IfNotTrue == Comment(<<"if", " ", "!", "x">>)

IfOpeners == {IfTrue, IfFalse, IfNotTrue}

NestLines == IfOpeners \cup {Dir(<<"endif">>), Text("a1"), Text("b1")}

\* The depth of open `if` blocks after the lines, -1 once an `endif` has no
\* `if` to close or a third block opens inside two.
RECURSIVE DepthAfter(_, _, _)
DepthAfter(lines, i, depth) ==
    IF i > Len(lines) THEN depth
    ELSE IF lines[i] \in IfOpeners
    THEN IF depth = 2 THEN -1 ELSE DepthAfter(lines, i + 1, depth + 1)
    ELSE IF lines[i] = Dir(<<"endif">>)
    THEN IF depth = 0 THEN -1 ELSE DepthAfter(lines, i + 1, depth - 1)
    ELSE DepthAfter(lines, i + 1, depth)

NestBodies == {b \in SeqsUpTo(NestLines, MaxNest) : DepthAfter(b, 1, 0) = 0}

NestTree(body) == << File("a", "html", << Dir(<<"set", "x", "s">>) >> \o body) >>

NestInit == \E body \in NestBodies : InitWith(NestTree(body))

NestSpec == NestInit /\ [][Next]_vars

\* The text lines that are in no block with a false condition, each `endif`
\* closing the last `if` still open: open holds the conditions of the blocks
\* a line is in.
RECURSIVE EmittedOutsideFalse(_, _, _)
EmittedOutsideFalse(lines, i, open) ==
    IF i > Len(lines) THEN <<>>
    ELSE IF lines[i] \in IfOpeners
    THEN EmittedOutsideFalse(lines, i + 1, Append(open, lines[i] = IfTrue))
    ELSE IF lines[i] = Dir(<<"endif">>)
    THEN EmittedOutsideFalse(lines, i + 1, SubSeq(open, 1, Len(open) - 1))
    ELSE IF \A k \in 1..Len(open) : open[k]
    THEN <<lines[i]>> \o EmittedOutsideFalse(lines, i + 1, open)
    ELSE EmittedOutsideFalse(lines, i + 1, open)

\* C20: a.html is written with exactly the text lines that are in no `if`
\* block with a false condition, each `endif` closing the `if` that matches
\* it: a line after an inner `endif` and still inside an outer false block is
\* not written, nor is a line of an inner true block inside an outer false
\* block.
C20_EmittedIffInNoFalseBlock ==
    stage = "done" =>
        \A body \in NestBodies :
            tree = NestTree(body) =>
                written[<<"a", ".", "html">>] = JoinLines(EmittedOutsideFalse(body, 1, <<>>))

-----------------------------------------------------------------------------
(* ProcessContentWithDirectives called on its own: the content is the text of
   the one file of the tree, any at most MaxSweep lines over the directive
   lines, the openers of a suppressed region and text lines. *)

MaxSweep == 3

DroppedDirectiveLines ==
    { Dir(<<"set", "x", "s">>), Dir(<<"global", "x", "g">>), Dir(<<"paste", "A">>),
      Comment(<<"include", " ", "b", ".", "html">>),
      Comment(<<"index", " ", "*", ".", "txt", " ", "T">>),
      Dir(<<"copy", "A">>), Dir(<<"template", "T">>), Dir(<<"end">>), Dir(<<"endif">>) }

SweepLines ==
    DroppedDirectiveLines
    \cup { Dir(<<"if", "foo">>), Dir(<<"if", "x">>), Dir(<<"cut", "B">>),
           Text("Hi"), <<"{{", "x", "}}">> }

SweepLocals == { EmptyMap, [k \in {"x"} |-> <<"s">>] }

SweepInit == \E ls \in SeqsUpTo(SweepLines, MaxSweep) : InitWith(<< File("a", "html", ls) >>)

\* A call of ProcessContentWithDirectives with the text of the file and the
\* local variables of the caller.
CallProcessContentWithDirectives ==
    /\ stage = "idle"
    /\ \E localVars \in SweepLocals :
          returned' = ProcessContentWithDirectives(tree[1].text, localVars, EmptyMap)
    /\ stage' = "returned"
    /\ UNCHANGED <<tree, fileIdx, tempFiles, files, snippets, templates, globals, written, trace>>
    /\ UNCHANGED resolveVars
    /\ UNCHANGED <<unwritable, builds, watchVars, timeVars>>

SweepSpec == SweepInit /\ [][CallProcessContentWithDirectives]_vars

\* The lines of the text ProcessContentWithDirectives returned.
ReturnedLines == SplitLines(returned)

\* C21: the block sweep drops every set, global, paste, include, index, copy,
\* template, end and endif line, with `write` true and with `write` false: no
\* line of the result of ProcessContentWithDirectives is a directive line.
C21_NoDirectiveLineInResult ==
    stage = "returned" =>
        \A n \in 1..Len(ReturnedLines) :
            /\ ReturnedLines[n] \notin DroppedDirectiveLines
            /\ ParseLine(ReturnedLines[n], 0).Type = "nil"

\* C21 witness: an `end` that follows text (write is true) and a paste that
\* follows `if foo` (write is false) have been swept, and the text is returned.
C21_DroppedInBothStates ==
    /\ stage = "returned"
    /\ SplitLines(tree[1].text)
         = << Text("Hi"), Dir(<<"end">>), Dir(<<"if", "foo">>) >>
    /\ returned = Text("Hi")

-----------------------------------------------------------------------------
(* processInlineConditionals called on its own: the text is any at most
   MaxSegments segments, each a piece of text outside the conditionals or an
   inline conditional over the conditions x and !foo (true) and foo and !x
   (false), and the function is followed iteration by iteration. *)

MaxSegments == 3

InlineLocals == [k \in {"x"} |-> <<"s">>]

InlineConditions == { <<"x">>, <<"foo">>, <<"!", "x">>, <<"!", "foo">> }

InlineGuarded == { <<" ", "a1", " ">>, <<"b1">> }

\* <!-- if c -->guarded<!-- endif -->, and the same without the optional spaces.
InlineConditional(c, guarded) ==
    <<"<!--", " ", "if", " ">> \o c \o <<" ", "-->">> \o guarded
        \o <<"<!--", " ", "endif", " ", "-->">>

CompactConditional(c, guarded) ==
    <<"<!--", "if", " ">> \o c \o <<"-->">> \o guarded \o <<"<!--", "endif", "-->">>

OutsideTexts ==
    { <<"Hi">>, <<" ">>, <<NL>>, <<"{{", "x", "}}">>,
      Dir(<<"if", "foo">>) \o <<NL>>, Dir(<<"endif">>) \o <<NL>> }

\* A segment: the text it is, and, for a conditional, its condition and its
\* guarded text.
InlineSegments ==
    { [text |-> t, conditional |-> FALSE, condition |-> <<>>, guarded |-> <<>>] :
         t \in OutsideTexts }
    \cup { [text |-> InlineConditional(c, g), conditional |-> TRUE,
            condition |-> c, guarded |-> g] :
              c \in InlineConditions, g \in InlineGuarded }
    \cup { [text |-> CompactConditional(c, <<"b1">>), conditional |-> TRUE,
            condition |-> c, guarded |-> <<"b1">>] : c \in {<<"x">>, <<"foo">>} }

InlineInputs == SeqsUpTo(InlineSegments, MaxSegments)

TextOf(segments) == Flatten([i \in 1..Len(segments) |-> segments[i].text])

InlineInit == \E segments \in InlineInputs : InitWith(<< File("a", "html", <<TextOf(segments)>>) >>)

\* processInlineConditionals is entered with the text of the file.
CallProcessInlineConditionals ==
    /\ stage = "idle"
    /\ returned' = tree[1].text
    /\ stage' = "inline"
    /\ UNCHANGED <<tree, fileIdx, tempFiles, files, snippets, templates, globals, written, trace>>
    /\ UNCHANGED resolveVars
    /\ UNCHANGED <<unwritable, builds, watchVars, timeVars>>

\* One iteration of its loop: the first match is replaced.
InlineLoop ==
    /\ stage = "inline"
    /\ InlineStarts(returned) # {}
    /\ returned' = InlineIteration(returned, InlineLocals, EmptyMap)
    /\ UNCHANGED <<tree, stage, fileIdx, tempFiles, files, snippets, templates, globals,
                   written, trace>>
    /\ UNCHANGED resolveVars
    /\ UNCHANGED <<unwritable, builds, watchVars, timeVars>>

\* No match is left: break, and the text is returned.
InlineBreak ==
    /\ stage = "inline"
    /\ InlineStarts(returned) = {}
    /\ stage' = "returned"
    /\ UNCHANGED <<tree, fileIdx, tempFiles, files, snippets, templates, globals, written, trace>>
    /\ UNCHANGED resolveVars
    /\ UNCHANGED <<unwritable, builds, watchVars, timeVars, returned>>

InlineNext == CallProcessInlineConditionals \/ InlineLoop \/ InlineBreak

InlineSpec == InlineInit /\ [][InlineNext]_vars

\* What the statement has a segment become: a conditional its guarded text if
\* its own condition holds and nothing otherwise, any other text itself.
GuardedTextOf(segments) ==
    Flatten([i \in 1..Len(segments) |->
                IF ~segments[i].conditional THEN segments[i].text
                ELSE IF ConditionHolds(segments[i].condition, InlineLocals, EmptyMap)
                THEN segments[i].guarded ELSE <<>>])

\* C22: on a text of independent inline conditionals every iteration of
\* processInlineConditionals strictly shortens the text, so that it
\* terminates, and the text returned has each conditional replaced by its own
\* guarded text when its own condition holds and by nothing otherwise, the
\* text outside the conditionals unchanged.
C22_EachConditionalByItsOwnCondition ==
    /\ [](stage = "returned" =>
            \A segments \in InlineInputs :
                tree[1].text = TextOf(segments) => returned = GuardedTextOf(segments))
    /\ [][stage = "inline" /\ stage' = "inline" => Len(returned') < Len(returned)]_vars

\* C22 witness: a line of a false conditional, text and a true conditional
\* has been processed, in two iterations.
C22_TwoConditionalsOnOneLine ==
    /\ stage = "returned"
    /\ tree[1].text = InlineConditional(<<"foo">>, <<"b1">>) \o <<"Hi">>
                        \o InlineConditional(<<"x">>, <<" ", "a1", " ">>)
    /\ returned = <<"Hi", " ", "a1", " ">>

-----------------------------------------------------------------------------
(* Apply trees: a.html names the template T of b.html by a set directive or
   in its frontmatter and gives x a value by a set directive, in its
   frontmatter or not at all; its body is any of a text line and a token of
   x.  The template is the line t1 and any of a paste of the snippet A, an
   `if x` block, the content token, a token of x and a paste of B, which no
   file defines; A is a text line and a token of x. *)

ApplyLayers == {"none", "set", "frontmatter"}

ApplyUnits == {"pasteA", "ifX", "content", "tokenX", "pasteB"}

ApplyBodyUnits == {"Hi", "tokenX"}

ApplyBody(units) ==
    (IF "Hi" \in units THEN << Text("Hi") >> ELSE <<>>)
    \o (IF "tokenX" \in units THEN << <<"{{", "x", "}}">> >> ELSE <<>>)

ApplyPage(inFrontmatter, layer, units) ==
    (IF inFrontmatter \/ layer = "frontmatter"
     THEN << FrontmatterMark >>
          \o (IF inFrontmatter THEN << <<"template", ":", " ", "T">> >> ELSE <<>>)
          \o (IF layer = "frontmatter" THEN << <<"x", ":", " ", "f">> >> ELSE <<>>)
          \o << FrontmatterMark >>
     ELSE <<>>)
    \o (IF inFrontmatter THEN <<>> ELSE << Dir(<<"set", "template", "T">>) >>)
    \o (IF layer = "set" THEN << Dir(<<"set", "x", "s">>) >> ELSE <<>>)
    \o ApplyBody(units)

ApplyTemplate_T(units) ==
    << Dir(<<"template", "T">>), Text("t1") >>
    \o (IF "pasteA" \in units THEN << Dir(<<"paste", "A">>) >> ELSE <<>>)
    \o (IF "ifX" \in units
        THEN << Dir(<<"if", "x">>), Text("t2"), Dir(<<"endif">>) >> ELSE <<>>)
    \o (IF "content" \in units THEN << <<"{{", "content", "}}">> >> ELSE <<>>)
    \o (IF "tokenX" \in units THEN << <<"u1", "{{", "x", "}}">> >> ELSE <<>>)
    \o (IF "pasteB" \in units THEN << Dir(<<"paste", "B">>) >> ELSE <<>>)
    \o << Dir(<<"end">>) >>

ApplySnippet_A == << Dir(<<"copy", "A">>), Text("a1"), <<"{{", "x", "}}">>, Dir(<<"end">>) >>

ApplyTree(inFrontmatter, layer, body, units) ==
    << File("a", "html", ApplyPage(inFrontmatter, layer, body)),
       File("b", "html", ApplyTemplate_T(units) \o ApplySnippet_A) >>

ApplyInit ==
    \E inFrontmatter \in BOOLEAN, layer \in ApplyLayers,
       body \in SUBSET ApplyBodyUnits, units \in SUBSET ApplyUnits :
        InitWith(ApplyTree(inFrontmatter, layer, body, units))

ApplySpec == ApplyInit /\ [][Next]_vars

\* The value of x in a layer, as lexemes; nothing if no layer gives it one.
ApplyValue(layer) ==
    IF layer = "set" THEN <<"s">> ELSE IF layer = "frontmatter" THEN <<"f">> ELSE <<>>

\* The resolved body of the page, as lines.
ApplyResolvedBody(layer, body) ==
    (IF "Hi" \in body THEN << Text("Hi") >> ELSE <<>>)
    \o (IF "tokenX" \in body THEN << ApplyValue(layer) >> ELSE <<>>)

\* The output the statement describes: the body of T with the paste of A
\* replaced by the resolved body of A, the content token by the resolved body
\* of the page, the `if x` block kept if x has a value, the tokens of x
\* replaced by its value; the paste of B, which names no snippet, leaves
\* nothing.
ApplyExpected(layer, body, units) ==
    << Text("t1") >>
    \o (IF "pasteA" \in units THEN << Text("a1"), ApplyValue(layer) >> ELSE <<>>)
    \o (IF "ifX" \in units /\ layer # "none" THEN << Text("t2") >> ELSE <<>>)
    \o (IF "content" \in units
        THEN (IF body = {} THEN << <<>> >> ELSE ApplyResolvedBody(layer, body))
        ELSE <<>>)
    \o (IF "tokenX" \in units THEN << <<"u1">> \o ApplyValue(layer) >> ELSE <<>>)

\* C23: a file that names a defined template is written as the body of the
\* template with every paste line replaced by the resolved body of the
\* snippet, the content token replaced by the resolved body of the file, and
\* the conditionals and tokens of the combined text resolved with the
\* variables of the file.
C23_TemplateApplied ==
    stage = "done" =>
        \A inFrontmatter \in BOOLEAN, layer \in ApplyLayers,
           body \in SUBSET ApplyBodyUnits, units \in SUBSET ApplyUnits :
            tree = ApplyTree(inFrontmatter, layer, body, units) =>
                written[<<"a", ".", "html">>] = JoinLines(ApplyExpected(layer, body, units))

\* C23 witness: the page names T in its frontmatter and sets x; T has every
\* unit, and the page is written with all of them resolved.
C23_EveryUnitResolved ==
    /\ stage = "done"
    /\ tree = ApplyTree(TRUE, "set", ApplyBodyUnits, ApplyUnits)
    /\ PageLines = << Text("t1"), Text("a1"), <<"s">>, Text("t2"), Text("Hi"), <<"s">>,
                      <<"u1", "s">> >>

-----------------------------------------------------------------------------
(* Nested trees: a.html is one copy, cut or template block A, with a line
   before and a line after an inner copy, cut or template block B of one
   line, each of the three there or not. *)

OuterKinds == {"copy", "cut", "template"}

InnerKinds == {"none", "copy", "cut", "template"}

InnerBlock(inner) ==
    IF inner = "none" THEN <<>>
    ELSE << Dir(<<inner, "B">>), Text("b1"), Dir(<<"end">>) >>

NestedPage(outer, inner, before, after) ==
    << Dir(<<outer, "A">>) >>
    \o (IF before THEN << Text("a1") >> ELSE <<>>)
    \o InnerBlock(inner)
    \o (IF after THEN << Text("g1") >> ELSE <<>>)
    \o << Dir(<<"end">>) >>

NestedTree(outer, inner, before, after) ==
    << File("a", "html", NestedPage(outer, inner, before, after)) >>

NestedInit ==
    \E outer \in OuterKinds, inner \in InnerKinds, before \in BOOLEAN, after \in BOOLEAN :
        InitWith(NestedTree(outer, inner, before, after))

NestedSpec == NestedInit /\ [][Next]_vars

\* C24: when the local scan of a file is over, the local snippet table is what
\* the Collector's stack algorithm makes of the lines of that file alone: the
\* same names and, for each name, the same body lines.
C24_LocalScanIsCollector ==
    (stage = "snippets" /\ pc = "expand") =>
        localSnippets
          = CollectSnippetsFromFile(files[fileIdx].Content, EmptyMap, EmptyMap).snippets

-----------------------------------------------------------------------------
(* Chain trees: page.html pastes the first snippet of a chain of at most
   MaxChain snippets, each defined in a file of its own, the files walked
   first to last or last to first; each snippet is its own line, the paste of
   the next one (the last has none) and, or not, a closing line. *)

MaxChain == maxIterations + 1

ChainNames == <<"A", "B", "T", "a", "b", "c", "p1", "p2", "p3", "f", "g">>

ChainSnippet(i, depth, withTail) ==
    << Dir(<<"copy", ChainNames[i]>>), Text(ChainNames[i]) >>
    \o (IF i < depth THEN << Dir(<<"paste", ChainNames[i + 1]>>) >> ELSE <<>>)
    \o (IF withTail THEN << Text("u1") >> ELSE <<>>)
    \o << Dir(<<"end">>) >>

\* The file that defines the snippet i, named after it.
ChainDefiner(i, depth, withTail) ==
    File(ChainNames[i], "html", ChainSnippet(i, depth, withTail))

ChainTree(depth, ascending, withTail) ==
    << File("page", "html", << Text("Hi"), Dir(<<"paste", ChainNames[1]>>), Text("Bye") >>) >>
    \o [k \in 1..depth |->
           ChainDefiner(IF ascending THEN k ELSE depth + 1 - k, depth, withTail)]

ChainInit ==
    \E depth \in 1..MaxChain, ascending \in BOOLEAN, withTail \in BOOLEAN :
        InitWith(ChainTree(depth, ascending, withTail))

ChainSpec == ChainInit /\ [][Next]_vars

\* The lines of the chain of the given depth expanded down to the level
\* `reached`: the lines of the snippets in order, the paste of the next
\* snippet if the chain goes on below, and the closing lines.
ChainExpanded(depth, reached, withTail) ==
    [k \in 1..reached |-> Text(ChainNames[k])]
    \o (IF reached < depth THEN << Dir(<<"paste", ChainNames[reached + 1]>>) >> ELSE <<>>)
    \o (IF withTail THEN [k \in 1..reached |-> Text("u1")] ELSE <<>>)

\* C25: after the Snippet Resolver, page.html holds the lines of every snippet of
\* a chain of depth at most 10, in order, and no paste; only a chain deeper
\* than the cap of 10 passes is left with an unexpanded paste.
C25_ChainExpandedUpToCap ==
    (stage = "variables" /\ fileIdx = 1) =>
        \A depth \in 1..MaxChain, ascending \in BOOLEAN, withTail \in BOOLEAN :
            tree = ChainTree(depth, ascending, withTail) =>
                /\ files[1].Content
                     = << Text("Hi") >>
                       \o ChainExpanded(depth, IF depth <= maxIterations THEN depth
                                               ELSE maxIterations, withTail)
                       \o << Text("Bye") >>
                /\ HasPaste(files[1].Content) <=> depth > maxIterations

\* C25 witness: the chain of depth 10 is expanded whole.
C25_ChainOfTenExpanded ==
    /\ stage = "variables" /\ fileIdx = 1
    /\ tree = ChainTree(10, TRUE, TRUE)
    /\ Len(files[1].Content) = 22
    /\ ~HasPaste(files[1].Content)

\* The tables the statement has the Collector make of a nested page: B under
\* its own name with its own line, A with its lines and the line of B in
\* place, no marker line in either; kinds says which blocks go to the table.
NestedTable(outer, inner, before, after, kinds) ==
    LET bodyA == (IF before THEN << Text("a1") >> ELSE <<>>)
                 \o (IF inner # "none" THEN << Text("b1") >> ELSE <<>>)
                 \o (IF after THEN << Text("g1") >> ELSE <<>>)
    IN [n \in (IF outer \in kinds THEN {"A"} ELSE {})
              \cup (IF inner \in kinds THEN {"B"} ELSE {}) |->
          IF n = "A" THEN bodyA ELSE << Text("b1") >>]

\* C26: in the Collector `end` closes the block opened last and still open,
\* and any other line that opens no block goes to the buffer of every open
\* block: after collection the inner block is stored under its own name with
\* exactly its own lines, and the outer block with the lines of the inner
\* block in place and neither of the inner block's marker lines.
C26_NestedBlocksCollected ==
    stage = "collectGlobals" =>
        \A outer \in OuterKinds, inner \in InnerKinds, before \in BOOLEAN, after \in BOOLEAN :
            tree = NestedTree(outer, inner, before, after) =>
                /\ snippets = NestedTable(outer, inner, before, after, {"copy", "cut"})
                /\ templates = NestedTable(outer, inner, before, after, {"template"})

\* C26 witness: a cut B inside a copy A, with a line before and a line after,
\* has been collected.
C26_CutInsideCopyCollected ==
    /\ stage = "collectGlobals"
    /\ tree = NestedTree("copy", "cut", TRUE, TRUE)
    /\ snippets["B"] = << Text("b1") >>
    /\ snippets["A"] = << Text("a1"), Text("b1"), Text("g1") >>


-----------------------------------------------------------------------------
(* Marker trees: a.html is any file of at most MaxMarker lines over the
   marker lines of blocks and conditionals, a paste and a text line. *)

MaxMarker == 3

MarkerLines ==
    { Dir(<<"copy", "A">>), Dir(<<"cut", "A">>), Dir(<<"template", "T">>), Dir(<<"end">>),
      Dir(<<"if", "x">>), Dir(<<"endif">>), Dir(<<"paste", "A">>), Text("a1") }

MarkerInit ==
    \E ls \in SeqsUpTo(MarkerLines, MaxMarker) : InitWith(<< File("a", "html", ls) >>)

MarkerSpec == MarkerInit /\ [][Next]_vars

\* The number of `endif` lines among the lines.
EndifLines(lines) ==
    Cardinality({n \in 1..Len(lines) : ParseLine(lines[n], 0).Type = "Endif"})

\* Does a line of the given types stand among the lines?
HasType(lines, types) == \E n \in 1..Len(lines) : ParseLine(lines[n], 0).Type \in types

IsMarkerLine(line) ==
    \/ ParseLine(line, 0).Type \in {"Copy", "Cut", "Template", "Endif"}
    \/ IsBlockEnd(line)

-----------------------------------------------------------------------------
(* Cut-block trees: a.html is any at most MaxUnits units, each a text line,
   a cut block A, a cut block B or a copy block A; nothing is nested. *)

MaxUnits == 3

CutUnits == {"Hi", "Bye", "cutA", "cutB", "copyA"}

UnitLines(unit) ==
    CASE unit = "Hi"    -> << Text("Hi") >>
      [] unit = "Bye"   -> << Text("Bye") >>
      [] unit = "cutA"  -> << Dir(<<"cut", "A">>), Text("a1"), Dir(<<"end">>) >>
      [] unit = "cutB"  -> << Dir(<<"cut", "B">>), Text("b1"), Dir(<<"end">>) >>
      [] unit = "copyA" -> << Dir(<<"copy", "A">>), Text("g1"), Dir(<<"end">>) >>

UnitsTree(units) ==
    << File("a", "html", Flatten([k \in 1..Len(units) |-> UnitLines(units[k])])) >>

UnitsInit == \E units \in SeqsUpTo(CutUnits, MaxUnits) : InitWith(UnitsTree(units))

UnitsSpec == UnitsInit /\ [][Next]_vars

\* The lines of the units that are outside every cut block, in their order.
OutsideCutBlocks(units) ==
    Flatten([k \in 1..Len(units) |->
                IF units[k] \in {"cutA", "cutB"} THEN <<>> ELSE UnitLines(units[k])])

\* C28: cut removal deletes a line only if it lies inside a cut block, from
\* the cut marker through the `end` that closes it: when paste expansion
\* starts, the working lines are the lines outside all cut blocks, in their
\* order, also for a file with several cut blocks of the same name.
C28_OnlyCutBlocksRemoved ==
    (stage = "snippets" /\ pc = "expand" /\ iteration = 0) =>
        \A units \in SeqsUpTo(CutUnits, MaxUnits) :
            tree = UnitsTree(units) => currentData = OutsideCutBlocks(units)

-----------------------------------------------------------------------------
(* The watcher in time: one burst of write and create events, each arriving
   within the debounce interval of the one before; the interval is Debounce
   ticks. *)

Debounce == 6

MaxCallbacks == 2

\* A write or create event of the burst arrives in the channel: it is the
\* first event, or less than the debounce interval has passed since the
\* event before.
BurstEvent ==
    /\ events < MaxEvents
    /\ (timer = "nil" /\ events = 0) \/ quietFor < Debounce
    /\ events' = events + 1
    /\ quietFor' = 0
    /\ UNCHANGED <<timer, active, unwritable, builds, returned, armedFor, callbacks>>
    /\ UNCHANGED <<buildVars, resolveVars>>

\* watchLoop takes a write or create event: the timer, if there is one, is
\* stopped and a new one is armed for the debounce interval.
WatchLoopTakes ==
    /\ events > 0
    /\ events' = events - 1
    /\ timer' = "armed"
    /\ armedFor' = 0
    /\ UNCHANGED <<active, unwritable, builds, returned, quietFor, callbacks>>
    /\ UNCHANGED <<buildVars, resolveVars>>

\* A tick of time passes, while the burst or the timer is running; an armed
\* timer that has run the interval fires before the next tick, and watchLoop
\* takes an event within a tick of its arrival.
Tick ==
    /\ ~(timer = "armed" /\ armedFor = Debounce)
    /\ quietFor < Debounce \/ timer = "armed"
    /\ events > 0 => quietFor = 0
    /\ armedFor' = IF timer = "armed" THEN armedFor + 1 ELSE armedFor
    /\ quietFor' = IF quietFor < Debounce THEN quietFor + 1 ELSE quietFor
    /\ UNCHANGED <<events, timer, active, unwritable, builds, returned, callbacks>>
    /\ UNCHANGED <<buildVars, resolveVars>>

\* The interval has passed since the timer was armed: it starts the callback
\* on a goroutine of its own.
TimerExpires ==
    /\ timer = "armed" /\ armedFor = Debounce
    /\ callbacks < MaxCallbacks
    /\ timer' = "fired"
    /\ callbacks' = callbacks + 1
    /\ UNCHANGED <<events, active, unwritable, builds, returned, armedFor, quietFor>>
    /\ UNCHANGED <<buildVars, resolveVars>>

BurstNext == BurstEvent \/ WatchLoopTakes \/ Tick \/ TimerExpires

BurstSpec == WatchInit /\ [][BurstNext]_vars

\* C29: a burst of events, each within the debounce interval of the one
\* before, starts the rebuild callback exactly once, after the last event of
\* the burst: the callback is never started a second time, and when it is
\* started no event of the burst is still to come or still in the channel.
C29_BurstStartsCallbackOnce ==
    /\ callbacks <= 1
    /\ callbacks = 1 => (events = 0 /\ quietFor = Debounce)

-----------------------------------------------------------------------------
(* The two frontmatter parsers called on the same lines: an opening mark, or
   not, at most MaxYAML lines of a block, a closing mark, or not, and a
   content line. *)

MaxYAML == 2

YAMLLines ==
    { <<"title", ":", " ", "Hi">>, <<" ", "x", " ", ":", " ", "s", " ">>,
      <<"x", ":", " ", "\"", "s", "\"">>, <<"x", ":", " ", "'", "s", "'">>,
      <<"x", ":", " ", "\"", "s">>, <<"x", ":", " ", "\"">>, <<"x", ":", " ", "'">>,
      <<"x", ":">>, <<":", " ", "s">>, <<"x", ":", " ", "a", ":", "b">>,
      <<"#", " ", "x", ":", " ", "s">>, <<"Hi">>, <<>> }

FrontmatterInputs ==
    { (IF opened THEN << FrontmatterMark >> ELSE <<>>)
      \o block
      \o (IF closed THEN << FrontmatterMark >> ELSE <<>>)
      \o << Text("a1") >> :
          opened \in BOOLEAN, closed \in BOOLEAN, block \in SeqsUpTo(YAMLLines, MaxYAML) }

FrontmatterInit == \E lines \in FrontmatterInputs : InitWith(<< File("p1", "txt", lines) >>)

\* Both parsers are called on the lines of the file: the file loader's and
\* the index metadata loader's.
CallParseFrontmatter ==
    /\ stage = "idle"
    /\ returned' = [loader |-> parseFrontmatter(SplitLines(tree[1].text)),
                    index  |-> processorParseFrontmatter(SplitLines(tree[1].text))]
    /\ stage' = "returned"
    /\ UNCHANGED <<tree, fileIdx, tempFiles, files, snippets, templates, globals, written, trace>>
    /\ UNCHANGED resolveVars
    /\ UNCHANGED <<unwritable, builds, watchVars, timeVars>>

FrontmatterSpec == FrontmatterInit /\ [][CallParseFrontmatter]_vars

\* C30: the two frontmatter parsers agree on every input: neither fails, and
\* they return the same content lines and the same mapping of keys to values.
C30_ParsersAgree ==
    stage = "returned" =>
        /\ ~returned.index.panicked
        /\ returned.index.content = returned.loader.content
        /\ returned.index.metadata = returned.loader.metadata

=============================================================================
